---- MODULE Spec2Model ----
(***************************************************************************)
(* Raster compositing engine of the creative generator                     *)
(* (src/src/hooks/useCreativeGenerator.ts, the image utilities at lines    *)
(* 508-804): the placement solver and canvas pipeline of compositeImages,  *)
(* the white flatten of stripTransparency / compositeProductOnBackdrop and *)
(* the two per-pixel classifiers chromaKeyGreen / removeWhiteBackground.   *)
(*                                                                         *)
(* The code computes with JavaScript numbers, i.e. IEEE-754 binary64 with  *)
(* round-to-nearest, ties-to-even.  The arithmetic is modelled bit for bit *)
(* (operators F...), on mantissas kept as natural numbers of arbitrary     *)
(* size (operators B...), because TLC's own integers are 32 bits wide.     *)
(* Overflow, subnormals, NaN and -0 are outside the value ranges the       *)
(* modelled code reaches and are not represented.                          *)
(***************************************************************************)
EXTENDS Integers, Sequences, FiniteSets, TLC

----------------------------------------------------------------------------
(* Natural numbers of arbitrary size: a sequence of limbs in base 2^12,    *)
(* least significant limb first, no zero limb at the top; <<>> is 0.       *)

LimbBits == 6 + 6
Base == 2 ^ LimbBits

Max(a, b) == IF a > b THEN a ELSE b
Min(a, b) == IF a < b THEN a ELSE b
Abs(n) == IF n < 0 THEN 0 - n ELSE n

RECURSIVE BStrip(_)
BStrip(a) ==
    IF a = <<>> THEN <<>>
    ELSE IF a[Len(a)] = 0 THEN BStrip(SubSeq(a, 1, Len(a) - 1))
    ELSE a

RECURSIVE BFromInt(_)
BFromInt(n) == IF n = 0 THEN <<>> ELSE <<n % Base>> \o BFromInt(n \div Base)

RECURSIVE BToInt(_)
BToInt(a) == IF a = <<>> THEN 0 ELSE a[1] + Base * BToInt(Tail(a))

Limb(a, k) == IF k <= Len(a) THEN a[k] ELSE 0

RECURSIVE BAddC(_, _, _, _)
BAddC(a, b, k, c) ==
    IF k > Len(a) /\ k > Len(b)
    THEN (IF c = 0 THEN <<>> ELSE <<c>>)
    ELSE LET x == Limb(a, k) + Limb(b, k) + c
         IN  <<x % Base>> \o BAddC(a, b, k + 1, x \div Base)

BAdd(a, b) == BAddC(a, b, 1, 0)

RECURSIVE BSubC(_, _, _, _)
BSubC(a, b, k, br) ==
    IF k > Len(a) THEN <<>>
    ELSE LET x == Limb(a, k) - Limb(b, k) - br
         IN  <<x % Base>> \o BSubC(a, b, k + 1, IF x < 0 THEN 1 ELSE 0)

\* a - b, for a >= b
BSub(a, b) == BStrip(BSubC(a, b, 1, 0))

RECURSIVE BCmpFrom(_, _, _)
BCmpFrom(a, b, k) ==
    IF k = 0 THEN 0
    ELSE IF a[k] > b[k] THEN 1
    ELSE IF a[k] < b[k] THEN -1
    ELSE BCmpFrom(a, b, k - 1)

\* -1, 0, 1 as a < b, a = b, a > b
BCmp(a, b) ==
    IF Len(a) > Len(b) THEN 1
    ELSE IF Len(a) < Len(b) THEN -1
    ELSE BCmpFrom(a, b, Len(a))

RECURSIVE BMulSmallC(_, _, _, _)
BMulSmallC(a, n, k, c) ==
    IF k > Len(a) THEN BFromInt(c)
    ELSE LET x == a[k] * n + c
         IN  <<x % Base>> \o BMulSmallC(a, n, k + 1, x \div Base)

\* a * n for 0 <= n < 2^18
BMulSmall(a, n) == IF n = 0 THEN <<>> ELSE BMulSmallC(a, n, 1, 0)

BShiftLimbs(a, n) == IF a = <<>> THEN <<>> ELSE [k \in 1..n |-> 0] \o a

RECURSIVE BMul(_, _)
BMul(a, b) ==
    IF a = <<>> \/ b = <<>> THEN <<>>
    ELSE BAdd(BMulSmall(a, Head(b)), BShiftLimbs(BMul(a, Tail(b)), 1))

\* a * 2^n
BShl(a, n) == BShiftLimbs(BMulSmall(a, 2 ^ (n % LimbBits)), n \div LimbBits)

\* floor(a / 2^n)
BShr(a, n) ==
    LET d == n \div LimbBits
        s == n % LimbBits
        t == IF d >= Len(a) THEN <<>> ELSE SubSeq(a, d + 1, Len(a))
    IN  BStrip([k \in 1..Len(t) |->
                  (t[k] \div (2 ^ s)) + (Limb(t, k + 1) % (2 ^ s)) * (2 ^ (LimbBits - s))])

RECURSIVE IntBitLen(_)
IntBitLen(n) == IF n = 0 THEN 0 ELSE 1 + IntBitLen(n \div 2)

BBitLen(a) == IF a = <<>> THEN 0 ELSE LimbBits * (Len(a) - 1) + IntBitLen(a[Len(a)])

BOdd(a) == a # <<>> /\ a[1] % 2 = 1

----------------------------------------------------------------------------
(* IEEE-754 binary64.  A number is [s, m, e] with value s * m * 2^e, where *)
(* s is 1 or -1 and m is 0 (then s = 1, e = 0) or 2^52 <= m < 2^53.        *)

Precision == 52 + 1

FZero == [s |-> 1, m |-> <<>>, e |-> 0]

FIsZero(a) == a.m = <<>>

\* The binary64 nearest to s * M * 2^E (plus a nonzero amount below M's last
\* bit when sticky), ties to the even mantissa.
FRound(s, M, E, sticky) ==
    IF M = <<>> THEN FZero
    ELSE LET L == BBitLen(M) IN
         IF L <= Precision
         THEN [s |-> s, m |-> BShl(M, Precision - L), e |-> E - (Precision - L)]
         ELSE LET sh   == L - Precision
                  q    == BShr(M, sh)
                  rem  == BSub(M, BShl(q, sh))
                  half == BShl(<<1>>, sh - 1)
                  c    == BCmp(rem, half)
                  up   == c > 0 \/ (c = 0 /\ (sticky \/ BOdd(q)))
                  q2   == IF up THEN BAdd(q, <<1>>) ELSE q
              IN  IF BBitLen(q2) > Precision
                  THEN [s |-> s, m |-> BShr(q2, 1), e |-> E + sh + 1]
                  ELSE [s |-> s, m |-> q2, e |-> E + sh]

\* An integer |n| < 2^31 as a number (exact)
FInt(n) == FRound(IF n < 0 THEN -1 ELSE 1, BFromInt(Abs(n)), 0, FALSE)

FNeg(a) == IF FIsZero(a) THEN a ELSE [a EXCEPT !.s = 0 - a.s]

\* Exact numbers [s, m, e] (value s * m * 2^e, m of any size): the exact sum,
\* product by an integer and order, with no rounding.
XNeg(a) == IF a.m = <<>> THEN a ELSE [a EXCEPT !.s = 0 - a.s]

XAdd(a, b) ==
    IF a.m = <<>> THEN b
    ELSE IF b.m = <<>> THEN a
    ELSE LET lo == Min(a.e, b.e)
             Ma == BShl(a.m, a.e - lo)
             Mb == BShl(b.m, b.e - lo)
             c  == BCmp(Ma, Mb)
         IN  IF a.s = b.s THEN [s |-> a.s, m |-> BAdd(Ma, Mb), e |-> lo]
             ELSE IF c = 0 THEN FZero
             ELSE IF c > 0 THEN [s |-> a.s, m |-> BSub(Ma, Mb), e |-> lo]
             ELSE [s |-> b.s, m |-> BSub(Mb, Ma), e |-> lo]

XSub(a, b) == XAdd(a, XNeg(b))

XAbs(a) == [a EXCEPT !.s = 1]

\* a * n for an integer |n| < 2^18
XMulInt(a, n) ==
    IF n = 0 \/ a.m = <<>> THEN FZero
    ELSE [s |-> IF n < 0 THEN 0 - a.s ELSE a.s, m |-> BMulSmall(a.m, Abs(n)), e |-> a.e]

\* a * 2^k
XShift(a, k) == IF a.m = <<>> THEN a ELSE [a EXCEPT !.e = a.e + k]

\* -1, 0, 1 as a < b, a = b, a > b
XCmp(a, b) == LET d == XSub(a, b) IN IF d.m = <<>> THEN 0 ELSE d.s

\* a + b
FAdd(a, b) == LET x == XAdd(a, b) IN FRound(x.s, x.m, x.e, FALSE)

\* a - b
FSub(a, b) == FAdd(a, FNeg(b))

\* a * b
FMul(a, b) ==
    IF FIsZero(a) \/ FIsZero(b) THEN FZero
    ELSE FRound(a.s * b.s, BMul(a.m, b.m), a.e + b.e, FALSE)

\* The integer made of limbs n.. of a: floor(a / Base^(n-1))
BTop(a, n) == IF n > Len(a) THEN 0 ELSE BToInt(SubSeq(a, n, Len(a)))

\* One limb of long division: the d with D*d <= R < D*(d+1), for R < D*Base.
\* The quotient of the leading limbs is off by at most one.
BDivLimb(R, D) ==
    LET est == BTop(R, Len(D) - 1) \div BTop(D, Len(D) - 1)
    IN  CHOOSE d \in {x \in (est - 1)..(est + 1) : 0 <= x /\ x < Base} :
            /\ BCmp(BMulSmall(D, d), R) <= 0
            /\ BCmp(BMulSmall(D, d + 1), R) > 0

\* Long division: k more quotient limbs of R / D, for R < D
RECURSIVE BDivLimbs(_, _, _, _)
BDivLimbs(R, D, Q, k) ==
    IF k = 0 THEN <<Q, R>>
    ELSE LET R2 == BShiftLimbs(R, 1)
             d  == BDivLimb(R2, D)
         IN  BDivLimbs(BSub(R2, BMulSmall(D, d)), D,
                       IF Q = <<>> /\ d = 0 THEN <<>> ELSE <<d>> \o Q, k - 1)

\* Quotient limbs computed: at least Precision + 1 bits
QuotLimbs == (Precision + 1) \div LimbBits + 1

\* a / b, for b # 0
FDiv(a, b) ==
    IF FIsZero(a) THEN FZero
    ELSE LET ge == BCmp(a.m, b.m) >= 0
             qr == BDivLimbs(IF ge THEN BSub(a.m, b.m) ELSE a.m, b.m,
                             IF ge THEN <<1>> ELSE <<>>, QuotLimbs)
         IN  FRound(a.s * b.s, qr[1], a.e - b.e - QuotLimbs * LimbBits, qr[2] # <<>>)

\* -1, 0, 1 as a < b, a = b, a > b
FCmp(a, b) ==
    LET mag == IF a.e > b.e THEN 1 ELSE IF a.e < b.e THEN -1 ELSE BCmp(a.m, b.m)
    IN  IF FIsZero(a) THEN (IF FIsZero(b) THEN 0 ELSE 0 - b.s)
        ELSE IF FIsZero(b) THEN a.s
        ELSE IF a.s # b.s THEN a.s
        ELSE a.s * mag

FLt(a, b) == FCmp(a, b) < 0
FGt(a, b) == FCmp(a, b) > 0
FLe(a, b) == FCmp(a, b) <= 0

\* Math.round: the nearest integer, a tie going up (towards +infinity)
MathRound(a) ==
    IF FIsZero(a) THEN 0
    ELSE IF a.e >= 0 THEN a.s * BToInt(BShl(a.m, a.e))
    ELSE LET k    == 0 - a.e
             n    == BShr(a.m, k)
             frac == BSub(a.m, BShl(n, k))
             c    == BCmp(frac, BShl(<<1>>, k - 1))
         IN  IF a.s = 1
             THEN BToInt(n) + (IF c >= 0 THEN 1 ELSE 0)
             ELSE 0 - (BToInt(n) + (IF c > 0 THEN 1 ELSE 0))

\* A decimal literal n/d of the source (0.6 is FLit(6, 10)): the nearest number
FLit(n, d) == FDiv(FInt(n), FInt(d))

\* The largest integer <= a and the smallest integer >= a (|a| < 2^31)
FFloor(a) ==
    IF FIsZero(a) THEN 0
    ELSE IF a.e >= 0 THEN a.s * BToInt(BShl(a.m, a.e))
    ELSE LET k     == 0 - a.e
             n     == BShr(a.m, k)
             whole == BShl(n, k) = a.m
         IN  IF a.s = 1 THEN BToInt(n)
             ELSE IF whole THEN 0 - BToInt(n)
             ELSE 0 - (BToInt(n) + 1)

FCeil(a) == 0 - FFloor(FNeg(a))

----------------------------------------------------------------------------
(* The state.  Each operation is a process of its own with its own         *)
(* variables; a specification runs one of them and leaves the others idle. *)

\* compositeImages
VARIABLES
    ci_pc,              \* position in compositeImages
    naturalWidth,       \* productImg.naturalWidth
    naturalHeight,      \* productImg.naturalHeight
    productPosition,    \* compositing.productPosition: [x, y, width, height]
    canvasSize,         \* compositing.canvasWidth, canvasHeight: [width, height]
    ci_canvas,          \* [width, height] of the canvas the function creates
    draw,               \* [drawX, drawY, drawW, drawH], binary64 numbers
    shadows,            \* the shadows painted so far: gradient and ellipse of each
    painted,            \* the canvas regions the shadows and the product wrote to
    ops,                \* the canvas operations issued so far, in order
    ci_out,             \* [width, height] of the exported image
    ci_err              \* why the promise rejected, "none" while it has not

ciVars == <<ci_pc, naturalWidth, naturalHeight, productPosition, canvasSize, ci_canvas,
            draw, shadows, painted, ops, ci_out, ci_err>>

\* chromaKeyGreen, removeWhiteBackground
VARIABLES
    cl_op,      \* "chroma" (chromaKeyGreen) or "white" (removeWhiteBackground)
    img,        \* the decoded image: [width, height, data], data the RGBA bytes
    canvas,     \* [width, height] of the canvas the function creates
    data,       \* imageData.data, the buffer the loop mutates
    cl_i,       \* the loop index i, a byte offset
    cl_pc,      \* "start", "loop", "done"
    cl_pass,    \* how many times the function has been applied to the buffer
    cl_last     \* the value the last iteration assigned to data[i + 3], if any

clVars == <<cl_op, img, canvas, data, cl_i, cl_pc, cl_pass, cl_last>>

\* One canvas pixel of a function that exports a JPEG
VARIABLES
    rs_fn,      \* "compositeImages", "stripTransparency", "compositeProductOnBackdrop"
    rs_k,       \* the next step of the function, an index into its pipeline
    rs_px,      \* the canvas pixel <<r, g, b, a>>
    rs_layers,  \* what has been drawn at the pixel: [layer, src] in order
    rs_out      \* the exported pixel <<r, g, b>>, <<>> before the export

rsVars == <<rs_fn, rs_k, rs_px, rs_layers, rs_out>>

\* compositeProductOnBackdrop
VARIABLES
    bd_pc,          \* position in compositeProductOnBackdrop
    bd_nw,          \* product.naturalWidth
    bd_nh,          \* product.naturalHeight
    bd_backdrop,    \* [width, height]: backdrop.naturalWidth, naturalHeight
    bd_canvas,      \* [width, height] of the canvas the function creates
    bd_draw,        \* [drawX, drawY, drawW, drawH], binary64 numbers
    bd_shadows,     \* the shadows painted so far
    bd_painted,     \* the canvas regions the shadows and the product wrote to
    bd_ops,         \* the canvas operations issued so far, in order
    bd_out,         \* [width, height] of the exported image
    bd_err          \* why the promise rejected, "none" while it has not

bdVars == <<bd_pc, bd_nw, bd_nh, bd_backdrop, bd_canvas, bd_draw, bd_shadows,
            bd_painted, bd_ops, bd_out, bd_err>>

\* The shadows of compositeImages at two probe pixels
VARIABLES
    sh_pc,      \* "place", "pickCore", "shadeCore", "pickAmbient", "shadeAmbient", "done"
    sh_in,      \* the call: [nw, nh, c, p] as in compositeImages
    sh_up,      \* the rasteriser rounds bytes up (TRUE) or down
    sh_draw,    \* the draw rectangle
    sh_shadows, \* the three shadows of the draw rectangle, in painting order
    sh_base,    \* the base point (cx, cy) of the shadows, in grains of 1/2048
    sh_p,       \* the probe inside the core ellipse: <<column, row>>
    sh_q,       \* the probe covered by the ambient shadow only
    sh_k,       \* the next shadow to paint: 1 ambient, 2 contact, 3 core
    sh_greyP,   \* the grey level of the canvas at sh_p
    sh_greyQ    \* the grey level of the canvas at sh_q

shVars == <<sh_pc, sh_in, sh_up, sh_draw, sh_shadows, sh_base, sh_p, sh_q, sh_k, sh_greyP, sh_greyQ>>

\* generateCreative of the hook
VARIABLES
    hook,               \* the version of the hook in use: 1 or 2 (0: not mounted)
    now,                \* Date.now()
    generatedCreatives, \* the hook's list: records [id, status, outputImageUrl]
    gc_pc,              \* per invocation: "idle", "removeBackground", "generate",
                        \* "composite", "strip", "done"
    creativeId,         \* per invocation: its creativeId
    gc_rec,             \* per invocation: the position of the record it appended
    gc_data,            \* per invocation: the body of the generate-creative response
    finalImageUrl,      \* per invocation: its finalImageUrl
    gc_comp,            \* per invocation: compositeImages "none", "resolved", "rejected"
    gc_strip            \* per invocation: stripTransparency "none", "resolved", "rejected"

gcVars == <<hook, now, generatedCreatives, gc_pc, creativeId, gc_rec, gc_data,
            finalImageUrl, gc_comp, gc_strip>>

\* Calls of compositeImages and stripTransparency in flight together
VARIABLES
    cc_call,    \* per call: [fn, scene, product], the function and its image arguments
    cc_pc,      \* per call: "idle", "loading", "done", "rejected"
    cc_loaded,  \* per call: the images that have loaded
    cc_canvas,  \* per call: the canvas it created (0: none yet)
    cc_out,     \* per call: the data URL it returned
    canvases    \* the canvases created so far: [owner, layers]

ccVars == <<cc_call, cc_pc, cc_loaded, cc_canvas, cc_out, canvases>>

\* resizeBase64Image
VARIABLES
    rz_pc,      \* "load" (awaiting loadImage), "done", "rejected"
    rz_w,       \* img.naturalWidth
    rz_h,       \* img.naturalHeight
    rz_maxDim,  \* the argument maxDim
    rz_out      \* what is returned: the input URL, or the export of a canvas nw x nh

rzVars == <<rz_pc, rz_w, rz_h, rz_maxDim, rz_out>>

\* The flatten of generateCreative applied to an image that is already flat
VARIABLES
    rf_pc,      \* "first" (the first export is awaited), "load", "done", "rejected"
    rf_fn,      \* the function that made the first export
    rf_layers,  \* what that function drew at the pixel, over its white fill
    rf_first,   \* the pixel of the first export (R, G, B)
    rf_img,     \* the pixel of the first export as loadImage decodes it (R, G, B, A)
    rf_out      \* the pixel stripTransparency exports for it (R, G, B)

rfVars == <<rf_pc, rf_fn, rf_layers, rf_first, rf_img, rf_out>>

vars == <<ciVars, clVars, rsVars, bdVars, shVars, gcVars, ccVars, rzVars, rfVars>>

\* What an operation leaves alone
notPlace == <<clVars, rsVars, bdVars, shVars, gcVars, ccVars, rzVars, rfVars>>
notClassify == <<ciVars, rsVars, bdVars, shVars, gcVars, ccVars, rzVars, rfVars>>
notRaster == <<ciVars, clVars, bdVars, shVars, gcVars, ccVars, rzVars, rfVars>>
notBackdrop == <<ciVars, clVars, rsVars, shVars, gcVars, ccVars, rzVars, rfVars>>
notShade == <<ciVars, clVars, rsVars, bdVars, gcVars, ccVars, rzVars, rfVars>>
notCreative == <<ciVars, clVars, rsVars, bdVars, shVars, ccVars, rzVars, rfVars>>
notConcurrent == <<ciVars, clVars, rsVars, bdVars, shVars, gcVars, rzVars, rfVars>>
notResize == <<ciVars, clVars, rsVars, bdVars, shVars, gcVars, ccVars, rfVars>>
notReflatten == <<ciVars, clVars, rsVars, bdVars, shVars, gcVars, ccVars, rzVars>>

----
(* compositeImages: the canvas pipeline and its placement solver.          *)

\* Bounds of the inputs
MaxNatural == 4
MaxBox == 4
MaxX == 1
MaxY == 2

NoDraw == [drawX |-> FZero, drawY |-> FZero, drawW |-> FZero, drawH |-> FZero]

\* The draw rectangle that top-anchors in the fit-to-width branch
PlaceRectTop(nw, nh, p) ==
    LET imgAspect == FDiv(FInt(nw), FInt(nh))
        boxAspect == FDiv(FInt(p.width), FInt(p.height))
    IN  IF FGt(imgAspect, boxAspect)
        THEN [drawW |-> FInt(p.width), drawH |-> FDiv(FInt(p.width), imgAspect),
              drawX |-> FInt(p.x), drawY |-> FInt(p.y)]
        ELSE LET drawW == FMul(FInt(p.height), imgAspect)
             IN  [drawW |-> drawW, drawH |-> FInt(p.height),
                  drawX |-> FAdd(FInt(p.x), FDiv(FSub(FInt(p.width), drawW), FInt(2))),
                  drawY |-> FInt(p.y)]

\* The draw rectangle that fills the box (no aspect fit)
PlaceRectStretch(nw, nh, p) ==
    [drawW |-> FInt(p.width), drawH |-> FInt(p.height),
     drawX |-> FInt(p.x), drawY |-> FInt(p.y)]

\* The draw rectangle that centres by the drawn height instead of the drawn width
PlaceRectCentreByHeight(nw, nh, p) ==
    LET imgAspect == FDiv(FInt(nw), FInt(nh))
        boxAspect == FDiv(FInt(p.width), FInt(p.height))
        drawW == IF FGt(imgAspect, boxAspect) THEN FInt(p.width)
                 ELSE FMul(FInt(p.height), imgAspect)
        drawH == IF FGt(imgAspect, boxAspect) THEN FDiv(FInt(p.width), imgAspect)
                 ELSE FInt(p.height)
    IN  [drawW |-> drawW, drawH |-> drawH,
         drawX |-> FAdd(FInt(p.x), FDiv(FSub(FInt(p.width), drawH), FInt(2))),
         drawY |-> FSub(FAdd(FInt(p.y), FInt(p.height)), drawH)]

\* lines 552-570: aspect-preserving, bottom-anchored draw rectangle
PlaceRect(nw, nh, p) ==
    LET imgAspect == FDiv(FInt(nw), FInt(nh))
        boxAspect == FDiv(FInt(p.width), FInt(p.height))
    IN  IF FGt(imgAspect, boxAspect)
        THEN LET drawH == FDiv(FInt(p.width), imgAspect)
             IN  [drawW |-> FInt(p.width), drawH |-> drawH,
                  drawX |-> FInt(p.x),
                  drawY |-> FSub(FAdd(FInt(p.y), FInt(p.height)), drawH)]
        ELSE LET drawH == FInt(p.height)
                 drawW == FMul(FInt(p.height), imgAspect)
             IN  [drawW |-> drawW, drawH |-> drawH,
                  drawX |-> FAdd(FInt(p.x), FDiv(FSub(FInt(p.width), drawW), FInt(2))),
                  drawY |-> FSub(FAdd(FInt(p.y), FInt(p.height)), drawH)]

\* A colour stop 'rgba(0, 0, 0, alpha)' at an offset, both in hundredths
Stop(at, alpha) == [at |-> at, alpha |-> alpha]

\* The number literals of the shadow code (lines 575-613), each the nearest
\* binary64 number
Two == FInt(2)
AmbientRadius == FLit(7, 10)
AmbientRx == FLit(65, 100)
AmbientRy == FLit(6, 100)
AmbientDrop == FInt(4)
ContactShift == FLit(3, 100)
ContactRadius == FLit(38, 100)
ContactRy == FLit(25, 1000)
ContactDrop == FInt(2)
CoreRadius == FLit(22, 100)
CoreRy == FLit(12, 1000)
CoreDrop == FInt(1)

\* The ambient shadow with its ellipse centred on the gradient's centre
AmbientOfCentred(d) ==
    LET cx == FAdd(d.drawX, FDiv(d.drawW, Two))
        cy == FAdd(d.drawY, d.drawH)
    IN  [layer |-> "ambient",
         gx |-> cx, gy |-> cy, r0 |-> FZero, r1 |-> FMul(d.drawW, AmbientRadius),
         stops |-> <<Stop(0, 10), Stop(40, 5), Stop(70, 2), Stop(100, 0)>>,
         ex |-> cx, ey |-> cy,
         rx |-> FMul(d.drawW, AmbientRx), ry |-> FMul(d.drawH, AmbientRy)]

\* lines 575-586: the ambient shadow.  createRadialGradient(gx, gy, r0, gx, gy, r1)
\* with its colour stops, and ellipse(ex, ey, rx, ry, 0, 0, 2 PI)
AmbientOf(d) ==
    LET cx == FAdd(d.drawX, FDiv(d.drawW, Two))
        cy == FAdd(d.drawY, d.drawH)
    IN  [layer |-> "ambient",
         gx |-> cx, gy |-> cy, r0 |-> FZero, r1 |-> FMul(d.drawW, AmbientRadius),
         stops |-> <<Stop(0, 10), Stop(40, 5), Stop(70, 2), Stop(100, 0)>>,
         ex |-> cx, ey |-> FAdd(cy, AmbientDrop),
         rx |-> FMul(d.drawW, AmbientRx), ry |-> FMul(d.drawH, AmbientRy)]

\* lines 589-600: the contact shadow, offset to the right
ContactOf(d) ==
    LET cx == FAdd(FAdd(d.drawX, FDiv(d.drawW, Two)), FMul(d.drawW, ContactShift))
        cy == FAdd(d.drawY, d.drawH)
    IN  [layer |-> "contact",
         gx |-> cx, gy |-> cy, r0 |-> FZero, r1 |-> FMul(d.drawW, ContactRadius),
         stops |-> <<Stop(0, 18), Stop(40, 8), Stop(100, 0)>>,
         ex |-> cx, ey |-> FAdd(cy, ContactDrop),
         rx |-> FMul(d.drawW, ContactRadius), ry |-> FMul(d.drawH, ContactRy)]

\* lines 603-613: the core shadow
CoreOf(d) ==
    LET cx == FAdd(d.drawX, FDiv(d.drawW, Two))
        cy == FAdd(d.drawY, d.drawH)
    IN  [layer |-> "core",
         gx |-> cx, gy |-> cy, r0 |-> FZero, r1 |-> FMul(d.drawW, CoreRadius),
         stops |-> <<Stop(0, 28), Stop(50, 10), Stop(100, 0)>>,
         ex |-> cx, ey |-> FAdd(cy, CoreDrop),
         rx |-> FMul(d.drawW, CoreRadius), ry |-> FMul(d.drawH, CoreRy)]

\* createRadialGradient and ellipse throw an IndexSizeError on a negative radius
Throws(s) == FLt(s.r1, FZero) \/ FLt(s.rx, FZero) \/ FLt(s.ry, FZero)

\* Drawing that is not clipped to the canvas
ClipNone(lo, hi, size) == [lo |-> lo, hi |-> hi]

\* The pixel columns (or rows) lo .. hi - 1 a drawing covers, as the canvas keeps
\* them: the bitmap has the columns 0 .. size - 1 and nothing is written outside
Clip(lo, hi, size) == [lo |-> Max(lo, 0), hi |-> Min(hi, size)]

\* The canvas region a drawing over [x0, x1] x [y0, y1] writes to: the pixels the
\* rectangle touches, clipped
Region(layer, x0, x1, y0, y1, cv) ==
    [layer |-> layer,
     x |-> Clip(FFloor(x0), FCeil(x1), cv.width),
     y |-> Clip(FFloor(y0), FCeil(y1), cv.height)]

\* fill() of a shadow ellipse: within the box of the ellipse
EllipseRegion(s, cv) ==
    Region(s.layer, FSub(s.ex, s.rx), FAdd(s.ex, s.rx), FSub(s.ey, s.ry), FAdd(s.ey, s.ry), cv)

\* drawImage(productImg, drawX, drawY, drawW, drawH)
ProductRegion(d, cv) ==
    Region("product", d.drawX, FAdd(d.drawX, d.drawW), d.drawY, FAdd(d.drawY, d.drawH), cv)

NoSize == [width |-> 0, height |-> 0]

\* Rectangles and product sizes beyond the small grid: the placement scenario of
\* the specification, full-size creatives, the shadow scenario, and a product
\* of exactly the aspect of its box (21 x 19)
PlaceScenarios ==
    { [nw |-> 100, nh |-> 200, c |-> [width |-> 300, height |-> 100],
       p |-> [x |-> 0, y |-> 0, width |-> 300, height |-> 100]],
      [nw |-> 1000, nh |-> 1333, c |-> [width |-> 1080, height |-> 1080],
       p |-> [x |-> 340, y |-> 500, width |-> 400, height |-> 480]],
      [nw |-> 1600, nh |-> 900, c |-> [width |-> 1080, height |-> 1080],
       p |-> [x |-> 120, y |-> 610, width |-> 840, height |-> 700]],
      [nw |-> 600, nh |-> 600, c |-> [width |-> 400, height |-> 400],
       p |-> [x |-> 100, y |-> 100, width |-> 200, height |-> 200]],
      [nw |-> 21, nh |-> 19, c |-> [width |-> 40, height |-> 40],
       p |-> [x |-> 1, y |-> 1, width |-> 21, height |-> 19]] }

\* Canvas sizes of the small grid: one that the rectangles exceed, one they fit in
CanvasSizes == { [width |-> 3, height |-> 2], [width |-> 8, height |-> 9] }

PlaceInputs ==
    PlaceScenarios \cup
    { [nw |-> a, nh |-> b, c |-> cv, p |-> [x |-> c, y |-> d, width |-> w, height |-> h]] :
        a \in 1..MaxNatural, b \in 1..MaxNatural, c \in 0..MaxX, d \in 0..MaxY,
        w \in 1..MaxBox, h \in 1..MaxBox, cv \in CanvasSizes }

InitPlace ==
    /\ \E i \in PlaceInputs :
          /\ naturalWidth = i.nw
          /\ naturalHeight = i.nh
          /\ productPosition = i.p
          /\ canvasSize = i.c
    /\ ci_pc = "load"
    /\ ci_canvas = NoSize
    /\ draw = NoDraw
    /\ shadows = <<>>
    /\ painted = <<>>
    /\ ops = <<>>
    /\ ci_out = NoSize
    /\ ci_err = "none"

\* lines 534-542: both images load, the canvas is created with the size given
LoadImages ==
    /\ ci_pc = "load"
    /\ ci_pc' = "fill"
    /\ ci_canvas' = canvasSize
    /\ ops' = Append(ops, "createCanvas")
    /\ UNCHANGED <<notPlace, naturalWidth, naturalHeight, productPosition, canvasSize,
                   draw, shadows, painted, ci_out, ci_err>>

\* lines 534-537, 800: an image fails to load, the promise rejects
LoadFails ==
    /\ ci_pc = "load"
    /\ ci_pc' = "error"
    /\ ci_err' = "load"
    /\ UNCHANGED <<notPlace, naturalWidth, naturalHeight, productPosition, canvasSize,
                   ci_canvas, draw, shadows, painted, ops, ci_out>>

\* lines 545-546: the canvas is filled with opaque white
FillWhite ==
    /\ ci_pc = "fill"
    /\ ci_pc' = "scene"
    /\ ops' = Append(ops, "fillWhite")
    /\ UNCHANGED <<notPlace, naturalWidth, naturalHeight, productPosition, canvasSize,
                   ci_canvas, draw, shadows, painted, ci_out, ci_err>>

\* line 549: the scene is drawn over the whole canvas
DrawScene ==
    /\ ci_pc = "scene"
    /\ ci_pc' = "place"
    /\ ops' = Append(ops, "drawScene")
    /\ UNCHANGED <<notPlace, naturalWidth, naturalHeight, productPosition, canvasSize,
                   ci_canvas, draw, shadows, painted, ci_out, ci_err>>

\* lines 552-570: the draw rectangle is computed
Place ==
    /\ ci_pc = "place"
    /\ ci_pc' = "ambient"
    /\ draw' = PlaceRect(naturalWidth, naturalHeight, productPosition)
    /\ UNCHANGED <<notPlace, naturalWidth, naturalHeight, productPosition, canvasSize,
                   ci_canvas, shadows, painted, ops, ci_out, ci_err>>

\* A shadow is painted: gradient, ellipse path, fill; a negative radius throws
PaintShadowOf(s, name, next) ==
    IF Throws(s)
    THEN /\ ci_pc' = "error"
         /\ ci_err' = "IndexSizeError"
         /\ UNCHANGED <<shadows, painted, ops>>
    ELSE /\ ci_pc' = next
         /\ shadows' = Append(shadows, s)
         /\ painted' = Append(painted, EllipseRegion(s, ci_canvas))
         /\ ops' = Append(ops, name)
         /\ UNCHANGED ci_err

\* lines 575-586
AmbientShadow ==
    /\ ci_pc = "ambient"
    /\ PaintShadowOf(AmbientOf(draw), "ambientShadow", "contact")
    /\ UNCHANGED <<notPlace, naturalWidth, naturalHeight, productPosition, canvasSize,
                   ci_canvas, draw, ci_out>>

\* lines 589-600
ContactShadow ==
    /\ ci_pc = "contact"
    /\ PaintShadowOf(ContactOf(draw), "contactShadow", "core")
    /\ UNCHANGED <<notPlace, naturalWidth, naturalHeight, productPosition, canvasSize,
                   ci_canvas, draw, ci_out>>

\* lines 603-613
CoreShadow ==
    /\ ci_pc = "core"
    /\ PaintShadowOf(CoreOf(draw), "coreShadow", "product")
    /\ UNCHANGED <<notPlace, naturalWidth, naturalHeight, productPosition, canvasSize,
                   ci_canvas, draw, ci_out>>

\* The product drawn as soon as its rectangle is known, before the shadows
DrawProductFirst ==
    /\ ci_pc = "ambient"
    /\ \A k \in 1..Len(ops) : ops[k] # "drawProduct"
    /\ painted' = Append(painted, ProductRegion(draw, ci_canvas))
    /\ ops' = Append(ops, "drawProduct")
    /\ UNCHANGED <<notPlace, ci_pc, naturalWidth, naturalHeight, productPosition,
                   canvasSize, ci_canvas, draw, shadows, ci_out, ci_err>>

\* line 616: the product is drawn into the draw rectangle
DrawProduct ==
    /\ ci_pc = "product"
    /\ ci_pc' = "export"
    /\ painted' = Append(painted, ProductRegion(draw, ci_canvas))
    /\ ops' = Append(ops, "drawProduct")
    /\ UNCHANGED <<notPlace, naturalWidth, naturalHeight, productPosition, canvasSize,
                   ci_canvas, draw, shadows, ci_out, ci_err>>

\* line 619: the canvas is exported, the image has the canvas's size
ExportJpeg ==
    /\ ci_pc = "export"
    /\ ci_pc' = "done"
    /\ ci_out' = ci_canvas
    /\ ops' = Append(ops, "toDataURL")
    /\ UNCHANGED <<notPlace, naturalWidth, naturalHeight, productPosition, canvasSize,
                   ci_canvas, draw, shadows, painted, ci_err>>

NextPlace ==
    \/ LoadImages
    \/ LoadFails
    \/ FillWhite
    \/ DrawScene
    \/ Place
    \/ AmbientShadow
    \/ ContactShadow
    \/ CoreShadow
    \/ DrawProduct
    \/ ExportJpeg

----------------------------------------------------------------------------
(* compositeProductOnBackdrop: the product centred on a studio backdrop.   *)

\* Bound of the backdrop's size
MaxBackdrop == 4

\* The number literals of lines 661-701
BdMaxW == FLit(6, 10)
BdMaxH == FLit(65, 100)
BdCentreY == FLit(55, 100)
BdAmbientRadius == FLit(7, 10)
BdAmbientRx == FLit(6, 10)
BdAmbientRy == FLit(5, 100)
BdAmbientDrop == FInt(4)
BdContactRadius == FLit(25, 100)
BdContactRy == FLit(15, 1000)
BdContactDrop == FInt(2)

\* The draw rectangle always fitted to the width limit
BackdropRectFitWidth(nw, nh, cv) ==
    LET maxW == FMul(FInt(cv.width), BdMaxW)
        drawH == FDiv(maxW, FDiv(FInt(nw), FInt(nh)))
    IN  [drawW |-> maxW, drawH |-> drawH,
         drawX |-> FDiv(FSub(FInt(cv.width), maxW), Two),
         drawY |-> FSub(FMul(FInt(cv.height), BdCentreY), FDiv(drawH, Two))]

\* lines 661-676: the draw rectangle, from the canvas size and the product's size
BackdropRect(nw, nh, cv) ==
    LET maxW == FMul(FInt(cv.width), BdMaxW)
        maxH == FMul(FInt(cv.height), BdMaxH)
        imgAspect == FDiv(FInt(nw), FInt(nh))
        wide == FGt(imgAspect, FDiv(maxW, maxH))
        drawW == IF wide THEN maxW ELSE FMul(maxH, imgAspect)
        drawH == IF wide THEN FDiv(maxW, imgAspect) ELSE maxH
    IN  [drawW |-> drawW, drawH |-> drawH,
         drawX |-> FDiv(FSub(FInt(cv.width), drawW), Two),
         drawY |-> FSub(FMul(FInt(cv.height), BdCentreY), FDiv(drawH, Two))]

\* lines 679-689: the ambient shadow
BdAmbientOf(d) ==
    LET cx == FAdd(d.drawX, FDiv(d.drawW, Two))
        cy == FAdd(d.drawY, d.drawH)
    IN  [layer |-> "ambient",
         gx |-> cx, gy |-> cy, r0 |-> FZero, r1 |-> FMul(d.drawW, BdAmbientRadius),
         stops |-> <<Stop(0, 12), Stop(40, 5), Stop(100, 0)>>,
         ex |-> cx, ey |-> FAdd(cy, BdAmbientDrop),
         rx |-> FMul(d.drawW, BdAmbientRx), ry |-> FMul(d.drawH, BdAmbientRy)]

\* lines 692-702: the contact shadow
BdContactOf(d) ==
    LET cx == FAdd(d.drawX, FDiv(d.drawW, Two))
        cy == FAdd(d.drawY, d.drawH)
    IN  [layer |-> "contact",
         gx |-> cx, gy |-> cy, r0 |-> FZero, r1 |-> FMul(d.drawW, BdContactRadius),
         stops |-> <<Stop(0, 22), Stop(50, 8), Stop(100, 0)>>,
         ex |-> cx, ey |-> FAdd(cy, BdContactDrop),
         rx |-> FMul(d.drawW, BdContactRadius), ry |-> FMul(d.drawH, BdContactRy)]

\* Backdrops and products beyond the small grid, among them a product of the
\* aspect of the limits maxW : maxH (3 x 1 on a backdrop 13 x 4)
BackdropScenarios ==
    { [nw |-> 800, nh |-> 600, b |-> [width |-> 1024, height |-> 1024]],
      [nw |-> 600, nh |-> 600, b |-> [width |-> 400, height |-> 400]],
      [nw |-> 300, nh |-> 900, b |-> [width |-> 1920, height |-> 1080]],
      [nw |-> 3, nh |-> 1, b |-> [width |-> 13, height |-> 4]] }

BackdropInputs ==
    BackdropScenarios \cup
    { [nw |-> a, nh |-> b, b |-> [width |-> w, height |-> h]] :
        a \in 1..MaxNatural, b \in 1..MaxNatural, w \in 1..MaxBackdrop, h \in 1..MaxBackdrop }

InitBackdrop ==
    /\ \E i \in BackdropInputs :
          /\ bd_nw = i.nw
          /\ bd_nh = i.nh
          /\ bd_backdrop = i.b
    /\ bd_pc = "load"
    /\ bd_canvas = NoSize
    /\ bd_draw = NoDraw
    /\ bd_shadows = <<>>
    /\ bd_painted = <<>>
    /\ bd_ops = <<>>
    /\ bd_out = NoSize
    /\ bd_err = "none"

\* lines 647-655: both images load, the canvas takes the backdrop's natural size
BdLoadImages ==
    /\ bd_pc = "load"
    /\ bd_pc' = "backdrop"
    /\ bd_canvas' = bd_backdrop
    /\ bd_ops' = Append(bd_ops, "createCanvas")
    /\ UNCHANGED <<notBackdrop, bd_nw, bd_nh, bd_backdrop, bd_draw, bd_shadows,
                   bd_painted, bd_out, bd_err>>

\* lines 647-650, 800: an image fails to load, the promise rejects
BdLoadFails ==
    /\ bd_pc = "load"
    /\ bd_pc' = "error"
    /\ bd_err' = "load"
    /\ UNCHANGED <<notBackdrop, bd_nw, bd_nh, bd_backdrop, bd_canvas, bd_draw,
                   bd_shadows, bd_painted, bd_ops, bd_out>>

\* line 658: the backdrop is drawn over the whole canvas
BdDrawBackdrop ==
    /\ bd_pc = "backdrop"
    /\ bd_pc' = "place"
    /\ bd_ops' = Append(bd_ops, "drawBackdrop")
    /\ UNCHANGED <<notBackdrop, bd_nw, bd_nh, bd_backdrop, bd_canvas, bd_draw,
                   bd_shadows, bd_painted, bd_out, bd_err>>

\* lines 661-676: the draw rectangle is computed
BdPlace ==
    /\ bd_pc = "place"
    /\ bd_pc' = "ambient"
    /\ bd_draw' = BackdropRect(bd_nw, bd_nh, bd_canvas)
    /\ UNCHANGED <<notBackdrop, bd_nw, bd_nh, bd_backdrop, bd_canvas, bd_shadows,
                   bd_painted, bd_ops, bd_out, bd_err>>

\* A shadow is painted: gradient, ellipse path, fill; a negative radius throws
BdPaintShadowOf(s, name, next) ==
    IF Throws(s)
    THEN /\ bd_pc' = "error"
         /\ bd_err' = "IndexSizeError"
         /\ UNCHANGED <<bd_shadows, bd_painted, bd_ops>>
    ELSE /\ bd_pc' = next
         /\ bd_shadows' = Append(bd_shadows, s)
         /\ bd_painted' = Append(bd_painted, EllipseRegion(s, bd_canvas))
         /\ bd_ops' = Append(bd_ops, name)
         /\ UNCHANGED bd_err

\* lines 679-689
BdAmbientShadow ==
    /\ bd_pc = "ambient"
    /\ BdPaintShadowOf(BdAmbientOf(bd_draw), "ambientShadow", "contact")
    /\ UNCHANGED <<notBackdrop, bd_nw, bd_nh, bd_backdrop, bd_canvas, bd_draw, bd_out>>

\* lines 692-702
BdContactShadow ==
    /\ bd_pc = "contact"
    /\ BdPaintShadowOf(BdContactOf(bd_draw), "contactShadow", "product")
    /\ UNCHANGED <<notBackdrop, bd_nw, bd_nh, bd_backdrop, bd_canvas, bd_draw, bd_out>>

\* line 705: the product is drawn into the draw rectangle
BdDrawProduct ==
    /\ bd_pc = "product"
    /\ bd_pc' = "export"
    /\ bd_painted' = Append(bd_painted, ProductRegion(bd_draw, bd_canvas))
    /\ bd_ops' = Append(bd_ops, "drawProduct")
    /\ UNCHANGED <<notBackdrop, bd_nw, bd_nh, bd_backdrop, bd_canvas, bd_draw,
                   bd_shadows, bd_out, bd_err>>

\* line 707: the canvas is exported
BdExportJpeg ==
    /\ bd_pc = "export"
    /\ bd_pc' = "done"
    /\ bd_out' = bd_canvas
    /\ bd_ops' = Append(bd_ops, "toDataURL")
    /\ UNCHANGED <<notBackdrop, bd_nw, bd_nh, bd_backdrop, bd_canvas, bd_draw,
                   bd_shadows, bd_painted, bd_err>>

NextBackdrop ==
    \/ BdLoadImages
    \/ BdLoadFails
    \/ BdDrawBackdrop
    \/ BdPlace
    \/ BdAmbientShadow
    \/ BdContactShadow
    \/ BdDrawProduct
    \/ BdExportJpeg

----------------------------------------------------------------------------
(* chromaKeyGreen and removeWhiteBackground: the per-pixel classifiers.    *)

\* Bounds of the inputs
MaxPixels == 2
MaxPasses == 2

NoWrite == [written |-> FALSE, value |-> 0]
Write(v) == [written |-> TRUE, value |-> v]

\* Storing a number in a Uint8ClampedArray
Uint8Clamp(v) == IF v < 0 THEN 0 ELSE IF v > 255 THEN 255 ELSE v

\* The chroma classifier with the soft band tested first
ChromaWriteSoftFirst(r, g, b) ==
    IF /\ g > 150
       /\ FGt(FInt(g), FMul(FInt(r), FLit(14, 10)))
       /\ FGt(FInt(g), FMul(FInt(b), FLit(14, 10)))
    THEN LET greenness == FDiv(FInt(g - Max(r, b)), FInt(g))
         IN  Write(MathRound(FMul(FInt(255), FSub(FInt(1), greenness))))
    ELSE IF g > 180 /\ r < 120 /\ b < 120 THEN Write(0)
    ELSE NoWrite

\* lines 726-734: what chromaKeyGreen assigns to data[i + 3] for a pixel
ChromaWrite(r, g, b) ==
    IF g > 180 /\ r < 120 /\ b < 120 THEN Write(0)
    ELSE IF /\ g > 150
            /\ FGt(FInt(g), FMul(FInt(r), FLit(14, 10)))
            /\ FGt(FInt(g), FMul(FInt(b), FLit(14, 10)))
    THEN LET greenness == FDiv(FInt(g - Max(r, b)), FInt(g))
         IN  Write(MathRound(FMul(FInt(255), FSub(FInt(1), greenness))))
    ELSE NoWrite

\* The white classifier with inclusive thresholds
WhiteWriteInclusive(r, g, b) ==
    IF r >= 240 /\ g >= 240 /\ b >= 240 THEN Write(0)
    ELSE IF r >= 220 /\ g >= 220 /\ b >= 220
    THEN LET whiteness == FDiv(FInt(r + g + b), FInt(255 * 3))
         IN  Write(MathRound(FMul(FInt(255), FSub(FInt(1), whiteness))))
    ELSE NoWrite

\* The white classifier with whiteness not averaged over the three channels
WhiteWriteNoAverage(r, g, b) ==
    IF r > 240 /\ g > 240 /\ b > 240 THEN Write(0)
    ELSE IF r > 220 /\ g > 220 /\ b > 220
    THEN LET whiteness == FDiv(FInt(r + g + b), FInt(255))
         IN  Write(MathRound(FMul(FInt(255), FSub(FInt(1), whiteness))))
    ELSE NoWrite

\* The white classifier with the hard band taken when any channel exceeds 240
WhiteWriteAnyChannel(r, g, b) ==
    IF r > 240 \/ g > 240 \/ b > 240 THEN Write(0)
    ELSE IF r > 220 /\ g > 220 /\ b > 220
    THEN LET whiteness == FDiv(FInt(r + g + b), FInt(255 * 3))
         IN  Write(MathRound(FMul(FInt(255), FSub(FInt(1), whiteness))))
    ELSE NoWrite

\* lines 757-768: what removeWhiteBackground assigns to data[i + 3] for a pixel
WhiteWrite(r, g, b) ==
    IF r > 240 /\ g > 240 /\ b > 240 THEN Write(0)
    ELSE IF r > 220 /\ g > 220 /\ b > 220
    THEN LET whiteness == FDiv(FInt(r + g + b), FInt(255 * 3))
         IN  Write(MathRound(FMul(FInt(255), FSub(FInt(1), whiteness))))
    ELSE NoWrite

\* lines 726-728, 757-759: the assignment of one iteration, from the bytes at
\* offset i (data[i] is d[i + 1], sequences being indexed from 1)
PixelWrite(op, d, i) ==
    IF op = "chroma" THEN ChromaWrite(d[i + 1], d[i + 2], d[i + 3])
    ELSE WhiteWrite(d[i + 1], d[i + 2], d[i + 3])

\* An iteration that stores the value in data[i] (the red byte)
StoreRed(d, i, w) ==
    IF w.written THEN [d EXCEPT ![i + 1] = Uint8Clamp(w.value)] ELSE d

\* An iteration that scales the alpha already there instead of replacing it
StoreScaled(d, i, w) ==
    IF w.written THEN [d EXCEPT ![i + 4] = (d[i + 4] * Uint8Clamp(w.value)) \div 255] ELSE d

\* lines 730, 733, 762, 767: data[i + 3] = value
Store(d, i, w) ==
    IF w.written THEN [d EXCEPT ![i + 4] = Uint8Clamp(w.value)] ELSE d

\* Channel values around every threshold of the two classifiers, with the pairs
\* where r * 1.4 rounds below g (165, 231) and where the alpha is a tie (156, 26)
Channels == {0, 26, 119, 120, 150, 151, 156, 165, 180, 181, 220, 221, 231, 240, 241, 255}
Alphas == {0, 100, 255}

\* Pixels of the images of more than one pixel
SamplePixels ==
    { <<0, 255, 0, 255>>, <<255, 255, 255, 255>>, <<230, 230, 230, 255>>,
      <<165, 231, 0, 100>>, <<0, 0, 0, 255>>, <<119, 181, 119, 0>> }

Bytes(px) == [k \in 1..(4 * Len(px)) |-> px[((k - 1) \div 4) + 1][((k - 1) % 4) + 1]]

\* The 2x2 pure green image of the chroma-key scenario
GreenImage ==
    [width |-> 2, height |-> 2, data |-> Bytes([k \in 1..4 |-> <<0, 255, 0, 255>>])]

\* Sizes of the images of more than one pixel
LargerSizes ==
    { d \in (1..MaxPixels) \X (1..MaxPixels) : 2 <= d[1] * d[2] /\ d[1] * d[2] <= MaxPixels }

Images ==
    {GreenImage}
    \cup { [width |-> 1, height |-> 1, data |-> <<r, g, b, a>>] :
             r \in Channels, g \in Channels, b \in Channels, a \in Alphas }
    \cup UNION { { [width |-> d[1], height |-> d[2], data |-> Bytes(px)] :
                     px \in [1..(d[1] * d[2]) -> SamplePixels] } : d \in LargerSizes }

InitClassify ==
    /\ cl_op \in {"chroma", "white"}
    /\ img \in Images
    /\ canvas = [width |-> 0, height |-> 0]
    /\ data = <<>>
    /\ cl_i = 0
    /\ cl_pc = "start"
    /\ cl_pass = 1
    /\ cl_last = NoWrite

\* lines 715-723, 746-754: the canvas takes the image's size, the image is drawn
\* and read back as imageData.data
GetImageData ==
    /\ cl_pc = "start"
    /\ canvas' = [width |-> img.width, height |-> img.height]
    /\ data' = img.data
    /\ cl_i' = 0
    /\ cl_pc' = "loop"
    /\ UNCHANGED <<notClassify, cl_op, img, cl_pass, cl_last>>

\* lines 725-735, 756-769: one iteration of the loop
ClassifyPixel ==
    /\ cl_pc = "loop"
    /\ cl_i < Len(data)
    /\ cl_last' = PixelWrite(cl_op, data, cl_i)
    /\ data' = Store(data, cl_i, cl_last')
    /\ cl_i' = cl_i + 4
    /\ UNCHANGED <<notClassify, cl_op, img, canvas, cl_pc, cl_pass>>

\* lines 737-738, 771-772: the loop ends, the buffer is put back and exported
PutImageData ==
    /\ cl_pc = "loop"
    /\ cl_i >= Len(data)
    /\ cl_pc' = "done"
    /\ UNCHANGED <<notClassify, cl_op, img, canvas, data, cl_i, cl_pass, cl_last>>

\* The function is applied again, to the buffer it produced
Reapply ==
    /\ cl_pc = "done"
    /\ cl_pass < MaxPasses
    /\ img' = [width |-> canvas.width, height |-> canvas.height, data |-> data]
    /\ cl_pass' = cl_pass + 1
    /\ cl_pc' = "start"
    /\ UNCHANGED <<notClassify, cl_op, canvas, data, cl_i, cl_last>>

NextClassify ==
    \/ GetImageData
    \/ ClassifyPixel
    \/ PutImageData
    \/ Reapply

----------------------------------------------------------------------------
(* The canvas content of the three functions that export a JPEG, followed  *)
(* at one pixel of the canvas (the 2D context composites pixel by pixel).  *)
(* An image drawn over the whole canvas covers the pixel; a shadow ellipse *)
(* or the product rectangle covers it or not.  The colour a drawn image    *)
(* contributes at the pixel, after resampling, is any of Sources.          *)

\* n / d rounded down or up: the precision of the blend is the browser's
DivRound(n, d, up) == IF n % d = 0 \/ ~up THEN n \div d ELSE (n \div d) + 1

\* The context's default compositing, source-over, on straight-alpha bytes:
\* outA = srcA + dstA (1 - srcA), outRGB = (srcRGB srcA + dstRGB dstA (1 - srcA)) / outA
SrcOver(dst, src, up) ==
    LET sa   == src[4]
        da   == dst[4]
        den  == sa * 255 + da * (255 - sa)
        outA == DivRound(den, 255, up)
        ch(k) == DivRound(src[k] * sa * 255 + dst[k] * da * (255 - sa), den, up)
    IN  IF den = 0 THEN <<0, 0, 0, 0>> ELSE <<ch(1), ch(2), ch(3), outA>>

\* toDataURL('image/jpeg'): the format has no alpha channel, the bitmap is
\* composited onto opaque black and the colour is kept (encoding loss aside)
EncodeJpeg(px, up) ==
    LET flat == SrcOver(<<0, 0, 0, 255>>, px, up) IN <<flat[1], flat[2], flat[3]>>

\* compositeImages without its white fill
PipelineNoFill(fn) ==
    IF fn = "compositeImages"
    THEN <<"create", "scene", "ambient", "contact", "core", "product", "export">>
    ELSE IF fn = "stripTransparency"
    THEN <<"create", "image", "export">>
    ELSE <<"create", "backdrop", "ambient", "contact", "product", "export">>

\* The canvas calls of each function, in program order
\* (lines 539-619, 628-635, 652-707)
Pipeline(fn) ==
    IF fn = "compositeImages"
    THEN <<"create", "fillWhite", "scene", "ambient", "contact", "core", "product", "export">>
    ELSE IF fn = "stripTransparency"
    THEN <<"create", "fillWhite", "image", "export">>
    ELSE <<"create", "backdrop", "ambient", "contact", "product", "export">>

RsStep == IF rs_k <= Len(Pipeline(rs_fn)) THEN Pipeline(rs_fn)[rs_k] ELSE "done"

\* Peak alpha of a shadow gradient, in percent (addColorStop(0, ...))
ShadowPeak(fn, layer) ==
    IF fn = "compositeImages"
    THEN (IF layer = "ambient" THEN 10 ELSE IF layer = "contact" THEN 18 ELSE 28)
    ELSE (IF layer = "ambient" THEN 12 ELSE 22)

\* Alpha bytes a shadow contributes at a covered pixel: the peak, and a value
\* further out on the gradient
ShadowAlphas(fn, layer) ==
    LET peak == (ShadowPeak(fn, layer) * 255) \div 100 IN {peak, peak \div 2}

\* What an image contributes at the pixel: transparent, translucent and opaque
Sources ==
    { <<0, 0, 0, 0>>, <<200, 100, 50, 0>>, <<200, 100, 50, 128>>, <<10, 200, 30, 1>>,
      <<200, 100, 50, 255>>, <<255, 255, 255, 255>>, <<0, 0, 0, 255>> }

InitRaster ==
    /\ rs_fn \in {"compositeImages", "stripTransparency", "compositeProductOnBackdrop"}
    /\ rs_k = 1
    /\ rs_px = <<0, 0, 0, 0>>
    /\ rs_layers = <<>>
    /\ rs_out = <<>>

\* document.createElement('canvas'), width and height set: transparent black
CreateCanvas ==
    /\ RsStep = "create"
    /\ rs_px' = <<0, 0, 0, 0>>
    /\ rs_k' = rs_k + 1
    /\ UNCHANGED <<notRaster, rs_fn, rs_layers, rs_out>>

\* fillStyle = '#FFFFFF'; fillRect over the whole canvas
PaintWhite ==
    /\ RsStep = "fillWhite"
    /\ \E up \in BOOLEAN : rs_px' = SrcOver(rs_px, <<255, 255, 255, 255>>, up)
    /\ rs_k' = rs_k + 1
    /\ UNCHANGED <<notRaster, rs_fn, rs_layers, rs_out>>

\* drawImage of the scene, the image or the backdrop over the whole canvas
PaintImage ==
    /\ RsStep \in {"scene", "image", "backdrop"}
    /\ \E src \in Sources, up \in BOOLEAN :
          /\ rs_px' = SrcOver(rs_px, src, up)
          /\ rs_layers' = Append(rs_layers, [layer |-> RsStep, src |-> src])
    /\ rs_k' = rs_k + 1
    /\ UNCHANGED <<notRaster, rs_fn, rs_out>>

\* fill of a shadow ellipse with its radial gradient of translucent black
PaintShadow ==
    /\ RsStep \in {"ambient", "contact", "core"}
    /\ \/ UNCHANGED <<rs_px, rs_layers>>
       \/ \E a \in ShadowAlphas(rs_fn, RsStep), up \in BOOLEAN :
             /\ rs_px' = SrcOver(rs_px, <<0, 0, 0, a>>, up)
             /\ rs_layers' = Append(rs_layers, [layer |-> RsStep, src |-> <<0, 0, 0, a>>])
    /\ rs_k' = rs_k + 1
    /\ UNCHANGED <<notRaster, rs_fn, rs_out>>

\* drawImage of the product into its draw rectangle
PaintProduct ==
    /\ RsStep = "product"
    /\ \/ UNCHANGED <<rs_px, rs_layers>>
       \/ \E src \in Sources, up \in BOOLEAN :
             /\ rs_px' = SrcOver(rs_px, src, up)
             /\ rs_layers' = Append(rs_layers, [layer |-> "product", src |-> src])
    /\ rs_k' = rs_k + 1
    /\ UNCHANGED <<notRaster, rs_fn, rs_out>>

\* canvas.toDataURL('image/jpeg', 0.95)
Encode ==
    /\ RsStep = "export"
    /\ \E up \in BOOLEAN : rs_out' = EncodeJpeg(rs_px, up)
    /\ rs_k' = rs_k + 1
    /\ UNCHANGED <<notRaster, rs_fn, rs_px, rs_layers>>

NextRaster ==
    \/ CreateCanvas
    \/ PaintWhite
    \/ PaintImage
    \/ PaintShadow
    \/ PaintProduct
    \/ Encode

----------------------------------------------------------------------------
(* The shadows of compositeImages on a white scene, followed at two probe  *)
(* pixels: one inside the core ellipse, one that only the ambient shadow   *)
(* covers, at the same distance from the base point (cx, cy).  A pixel is  *)
(* painted by a fill when its centre lies inside the ellipse; it takes the *)
(* gradient's colour at its centre, an alpha byte, composited source-over. *)
(* Which way the rasteriser rounds a byte is not the program's choice.     *)

\* The exact product
XMul(a, b) ==
    IF a.m = <<>> \/ b.m = <<>> THEN FZero
    ELSE [s |-> a.s * b.s, m |-> BMul(a.m, b.m), e |-> a.e + b.e]

XSq(a) == XMul(a, a)

\* An integer below 2^31 as an exact number
XOfInt(n) == [s |-> IF n < 0 THEN -1 ELSE 1, m |-> BFromInt(Abs(n)), e |-> 0]

\* The centre of pixel column (or row) n: n + 1/2
Centre(n) == [s |-> IF n < 0 THEN -1 ELSE 1, m |-> BFromInt(Abs(2 * n + 1)), e |-> -1]

\* The three shadows of a draw rectangle, in painting order
ShadowsOf(d) == <<AmbientOf(d), ContactOf(d), CoreOf(d)>>

\* The pixel's centre lies inside the ellipse of the shadow:
\* (X - ex)^2 ry^2 + (Y - ey)^2 rx^2 < rx^2 ry^2
InEllipse(s, px) ==
    LET u == XSq(XSub(Centre(px[1]), s.ex))
        v == XSq(XSub(Centre(px[2]), s.ey))
        a == XSq(s.rx)
        b == XSq(s.ry)
    IN  XCmp(XAdd(XMul(u, b), XMul(v, a)), XMul(a, b)) < 0

\* The squared distance of the pixel's centre from the gradient's centre
Dist2(s, px) ==
    XAdd(XSq(XSub(Centre(px[1]), s.gx)), XSq(XSub(Centre(px[2]), s.gy)))

\* The segment of the colour stops in which the gradient's alpha is v / 255,
\* for 1 <= v <= 255 * peak: the first whose end is not above it
StopSegment(stops, v) ==
    CHOOSE i \in 1..(Len(stops) - 1) :
        /\ 255 * stops[i + 1].alpha <= 100 * v
        /\ \A j \in 1..(i - 1) : 255 * stops[j + 1].alpha > 100 * v

\* -1, 0, 1 as the gradient's alpha at squared distance d2, times 255, is below,
\* equal to or above v (1 <= v): the stops are linear in t = d / r1, so the alpha
\* is v / 255 at t = N / D, and d / r1 is compared with N / D through the squares
AlphaCmp(stops, d2, r2, v) ==
    LET i  == StopSegment(stops, v)
        da == stops[i].alpha - stops[i + 1].alpha
        N  == stops[i].at * 255 * da
                + (stops[i + 1].at - stops[i].at) * (255 * stops[i].alpha - 100 * v)
        D  == 100 * 255 * da
    IN  XCmp(XMul(r2, XSq(XOfInt(N))), XMul(d2, XSq(XOfInt(D))))

\* The largest v in lo..hi with alpha * 255 >= v, given that lo is one
RECURSIVE AlphaFloor(_, _, _, _, _)
AlphaFloor(stops, d2, r2, lo, hi) ==
    IF lo >= hi THEN lo
    ELSE IF AlphaCmp(stops, d2, r2, (lo + hi + 1) \div 2) >= 0
         THEN AlphaFloor(stops, d2, r2, (lo + hi + 1) \div 2, hi)
         ELSE AlphaFloor(stops, d2, r2, lo, (lo + hi + 1) \div 2 - 1)

\* 255 times the alpha is the integer low
AlphaWhole(stops, d2, r2, low) ==
    IF low = 0 THEN XCmp(d2, r2) >= 0 ELSE AlphaCmp(stops, d2, r2, low) = 0

\* 255 times the alpha, which is at least low and below low + 1, rounded
AlphaRound(stops, d2, r2, low, up) ==
    IF up /\ ~AlphaWhole(stops, d2, r2, low) THEN low + 1 ELSE low

\* 255 times the alpha at squared distance d2 of a gradient of squared radius
\* r2, rounded down or up
AlphaAt(stops, d2, r2, up) ==
    AlphaRound(stops, d2, r2,
               AlphaFloor(stops, d2, r2, 0, (255 * stops[1].alpha) \div 100), up)

\* The alpha byte of the gradient at the pixel
AlphaByte(s, px, up) == AlphaAt(s.stops, Dist2(s, px), XSq(s.r1), up)

\* Painting that replaces the pixel instead of compositing over it
ShadeCopy(grey, s, px, up) ==
    IF InEllipse(s, px) THEN 255 - AlphaByte(s, px, up) ELSE grey

\* fill() of a shadow at a pixel of grey level grey: translucent black over it
ShadeOver(grey, s, px, up) ==
    IF InEllipse(s, px)
    THEN SrcOver(<<grey, grey, grey, 255>>, <<0, 0, 0, AlphaByte(s, px, up)>>, up)[1]
    ELSE grey

\* The product hides the pixel: its centre is within the draw rectangle
Hidden(d, px) ==
    /\ XCmp(d.drawX, Centre(px[1])) <= 0
    /\ XCmp(Centre(px[1]), FAdd(d.drawX, d.drawW)) < 0
    /\ XCmp(d.drawY, Centre(px[2])) <= 0
    /\ XCmp(Centre(px[2]), FAdd(d.drawY, d.drawH)) < 0

Pixels(g) == (g.x.lo..(g.x.hi - 1)) \X (g.y.lo..(g.y.hi - 1))

\* The pixels within r of the point (gx, gy)
Around(gx, gy, r, cv) ==
    Region("reach", FSub(gx, r), FAdd(gx, r), FSub(gy, r), FAdd(gy, r), cv)

\* The pixels of both regions
Both(g, h) ==
    [layer |-> h.layer,
     x |-> [lo |-> Max(g.x.lo, h.x.lo), hi |-> Min(g.x.hi, h.x.hi)],
     y |-> [lo |-> Max(g.y.lo, h.y.lo), hi |-> Min(g.y.hi, h.y.hi)]]

\* The pixels in which a probe covered by the ambient shadow only can lie when it
\* is as far from the base point as a pixel of the core ellipse: the box of the
\* ambient ellipse, cut to the reach of the core ellipse around the base point
ReachRegion(sh, cv) ==
    Both(EllipseRegion(sh[1], cv),
         Around(sh[3].gx, sh[3].gy, FAdd(FAdd(sh[3].rx, sh[3].ry), Two), cv))

\* The grain of the integer approximation of an offset: 2^11
Grain == FInt(2048)

\* The base point in grains, rounded down to integers
BaseGrains(sh) == <<FFloor(FMul(sh[3].gx, Grain)), FFloor(FMul(sh[3].gy, Grain))>>

\* The offset of a pixel's centre from the base point in grains, rounded up to
\* an integer: the true offset is this minus a fraction below one
OffsetGrains(base, px) ==
    <<1024 * (2 * px[1] + 1) - base[1], 1024 * (2 * px[2] + 1) - base[2]>>

\* A condition every pair of pixels at the same distance meets, on integers.
\* With true offsets (a - f, b - g) and (c - f, d - g), equal distances mean
\* (a - c)(a + c) + (b - d)(b + d) = 2 f (a - c) + 2 g (b - d); the differences
\* a - c and b - d are multiples of 2048 and are taken in pixels
MayBeEquidistant(p, q, a, c) ==
    LET dx == p[1] - q[1]
        dy == p[2] - q[2]
    IN  Abs(dx * (a[1] + c[1]) + dy * (a[2] + c[2])) <= 2 * (Abs(dx) + Abs(dy))

Equidistant(sh, p, q) == XCmp(Dist2(sh[3], p), Dist2(sh[3], q)) = 0

InCore(sh, px) == InEllipse(sh[3], px)

AmbientOnly(sh, px) ==
    /\ InEllipse(sh[1], px)
    /\ ~InEllipse(sh[2], px)
    /\ ~InEllipse(sh[3], px)

\* The shadow scenario of the specification and smaller placements
ShadeInputs ==
    { [nw |-> 600, nh |-> 600, c |-> [width |-> 400, height |-> 400],
       p |-> [x |-> 100, y |-> 100, width |-> 200, height |-> 200]],
      [nw |-> 3, nh |-> 3, c |-> [width |-> 120, height |-> 120],
       p |-> [x |-> 30, y |-> 30, width |-> 58, height |-> 58]],
      [nw |-> 2, nh |-> 1, c |-> [width |-> 200, height |-> 200],
       p |-> [x |-> 40, y |-> 20, width |-> 120, height |-> 100]] }

NoPixel == <<0, 0>>

InitShade ==
    /\ sh_in \in ShadeInputs
    /\ sh_up \in BOOLEAN
    /\ sh_pc = "place"
    /\ sh_draw = NoDraw
    /\ sh_shadows = <<>>
    /\ sh_base = <<0, 0>>
    /\ sh_p = NoPixel
    /\ sh_q = NoPixel
    /\ sh_k = 1
    /\ sh_greyP = 255
    /\ sh_greyQ = 255

\* lines 545-570: white canvas, white scene, the draw rectangle is computed
ShPlace ==
    /\ sh_pc = "place"
    /\ sh_pc' = "pickCore"
    /\ sh_draw' = PlaceRect(sh_in.nw, sh_in.nh, sh_in.p)
    /\ sh_shadows' = ShadowsOf(sh_draw')
    /\ sh_base' = BaseGrains(sh_shadows')
    /\ UNCHANGED <<notShade, sh_in, sh_up, sh_p, sh_q, sh_k, sh_greyP, sh_greyQ>>

\* The first probe: a pixel inside the core ellipse that the product leaves visible
ShPickCore ==
    /\ sh_pc = "pickCore"
    /\ \E px \in Pixels(EllipseRegion(sh_shadows[3], sh_in.c)) :
          /\ InCore(sh_shadows, px)
          /\ ~Hidden(sh_draw, px)
          /\ sh_p' = px
    /\ sh_pc' = "shadeCore"
    /\ UNCHANGED <<notShade, sh_in, sh_up, sh_draw, sh_shadows, sh_base, sh_q, sh_k, sh_greyP, sh_greyQ>>

\* lines 575-613 at the first probe: the fill of shadow sh_k
ShShadeCore ==
    /\ sh_pc = "shadeCore"
    /\ sh_greyP' = ShadeOver(sh_greyP, sh_shadows[sh_k], sh_p, sh_up)
    /\ IF sh_k < 3
       THEN sh_k' = sh_k + 1 /\ UNCHANGED sh_pc
       ELSE sh_k' = 1 /\ sh_pc' = "pickAmbient"
    /\ UNCHANGED <<notShade, sh_in, sh_up, sh_draw, sh_shadows, sh_base, sh_p, sh_q, sh_greyQ>>

\* The second probe: a visible pixel only the ambient shadow covers, as far from
\* the base point as the first
ShPickAmbient ==
    /\ sh_pc = "pickAmbient"
    /\ \E px \in Pixels(ReachRegion(sh_shadows, sh_in.c)) :
          /\ MayBeEquidistant(sh_p, px, OffsetGrains(sh_base, sh_p), OffsetGrains(sh_base, px))
          /\ Equidistant(sh_shadows, sh_p, px)
          /\ AmbientOnly(sh_shadows, px)
          /\ ~Hidden(sh_draw, px)
          /\ sh_q' = px
    /\ sh_pc' = "shadeAmbient"
    /\ UNCHANGED <<notShade, sh_in, sh_up, sh_draw, sh_shadows, sh_base, sh_p, sh_k, sh_greyP, sh_greyQ>>

\* lines 575-613 at the second probe: the fill of shadow sh_k
ShShadeAmbient ==
    /\ sh_pc = "shadeAmbient"
    /\ sh_greyQ' = ShadeOver(sh_greyQ, sh_shadows[sh_k], sh_q, sh_up)
    /\ IF sh_k < 3
       THEN sh_k' = sh_k + 1 /\ UNCHANGED sh_pc
       ELSE sh_k' = 1 /\ sh_pc' = "done"
    /\ UNCHANGED <<notShade, sh_in, sh_up, sh_draw, sh_shadows, sh_base, sh_p, sh_q, sh_greyP>>

NextShade ==
    \/ ShPlace
    \/ ShPickCore
    \/ ShShadeCore
    \/ ShPickAmbient
    \/ ShShadeAmbient

----------------------------------------------------------------------------
(* generateCreative of the hook useCreativeGenerator.  The file holds two  *)
(* versions of the hook: the first (lines 18-222) sends the raw product    *)
(* image to generate-creative; the second (lines 238-480) removes the      *)
(* background first and composites when the response enables it.  An       *)
(* invocation runs from one await to the next; invocations started from    *)
(* different cards are in flight together.                                 *)

MaxCalls == 2
MaxClock == 1

Calls == 1..MaxCalls

\* Image URLs: where the image comes from, whether compositeImages made it, and
\* whether it passed through a white fill and JPEG export
Undefined == [origin |-> "undefined", composited |-> FALSE, flattened |-> FALSE]
AiImage == [origin |-> "ai", composited |-> FALSE, flattened |-> FALSE]

\* The bodies of a successful generate-creative response
Responses ==
    { [imageUrl |-> AiImage, enabled |-> TRUE],
      [imageUrl |-> AiImage, enabled |-> FALSE],
      [imageUrl |-> Undefined, enabled |-> FALSE] }

NoData == [imageUrl |-> Undefined, enabled |-> FALSE]

\* compositeImages resolves with the JPEG export of its canvas (line 619)
Composited(scene) == [origin |-> scene.origin, composited |-> TRUE, flattened |-> TRUE]

\* A stripTransparency that hands its argument back
Unflattened(url) == url

\* stripTransparency resolves with the JPEG export of the image over white
\* (lines 626-636)
Flattened(url) == [url EXCEPT !.flattened = TRUE]

\* loadImage rejects for a source that is no image (lines 796-804)
Loadable(url) == url.origin # "undefined"

\* setGeneratedCreatives(prev => prev.map(c => c.id === creativeId ? ... : c))
MarkError(list, id) ==
    [k \in DOMAIN list |->
        IF list[k].id = id THEN [list[k] EXCEPT !.status = "error"] ELSE list[k]]

MarkCompleted(list, id, url) ==
    [k \in DOMAIN list |->
        IF list[k].id = id
        THEN [list[k] EXCEPT !.status = "completed", !.outputImageUrl = url]
        ELSE list[k]]

InitCreative ==
    /\ hook \in {1, 2}
    /\ now = 0
    /\ generatedCreatives = <<>>
    /\ gc_pc = [c \in Calls |-> "idle"]
    /\ creativeId = [c \in Calls |-> 0]
    /\ gc_rec = [c \in Calls |-> 0]
    /\ gc_data = [c \in Calls |-> NoData]
    /\ finalImageUrl = [c \in Calls |-> Undefined]
    /\ gc_comp = [c \in Calls |-> "none"]
    /\ gc_strip = [c \in Calls |-> "none"]

\* Date.now() moves on
Tick ==
    /\ hook # 0
    /\ now < MaxClock
    /\ now' = now + 1
    /\ UNCHANGED <<notCreative, hook, generatedCreatives, gc_pc, creativeId, gc_rec,
                   gc_data, finalImageUrl, gc_comp, gc_strip>>

\* lines 133-143 / 355-365: the record is appended with status 'generating', and
\* the first function is invoked
Start(c) ==
    /\ gc_pc[c] = "idle"
    /\ creativeId' = [creativeId EXCEPT ![c] = now]
    /\ gc_rec' = [gc_rec EXCEPT ![c] = Len(generatedCreatives) + 1]
    /\ generatedCreatives' = Append(generatedCreatives,
            [id |-> now, status |-> "generating", outputImageUrl |-> Undefined])
    /\ gc_pc' = [gc_pc EXCEPT ![c] = IF hook = 2 THEN "removeBackground" ELSE "generate"]
    /\ UNCHANGED <<notCreative, hook, now, gc_data, finalImageUrl, gc_comp, gc_strip>>

\* lines 441-452 / 179-190: the outer catch marks the record, finally ends the call
Throw(c) ==
    /\ generatedCreatives' = MarkError(generatedCreatives, creativeId[c])
    /\ gc_pc' = [gc_pc EXCEPT ![c] = "done"]

\* lines 373-381: remove-background settles; an error or a body without success
\* is thrown
RemoveBackgroundSettles(c) ==
    /\ gc_pc[c] = "removeBackground"
    /\ \E ok \in BOOLEAN :
          IF ok
          THEN /\ gc_pc' = [gc_pc EXCEPT ![c] = "generate"]
               /\ UNCHANGED generatedCreatives
          ELSE Throw(c)
    /\ UNCHANGED <<notCreative, hook, now, creativeId, gc_rec, gc_data, finalImageUrl,
                   gc_comp, gc_strip>>

\* lines 149-160 / 394-407: generate-creative settles with an error, which is thrown
GenerateFails(c) ==
    /\ gc_pc[c] = "generate"
    /\ Throw(c)
    /\ UNCHANGED <<notCreative, hook, now, creativeId, gc_rec, gc_data, finalImageUrl,
                   gc_comp, gc_strip>>

\* lines 160-166 / 405-426: generate-creative settles with a body; the second hook
\* calls compositeImages when the body enables compositing, else the flattening
\* is imported and called
Receive(c, body) ==
    /\ gc_data' = [gc_data EXCEPT ![c] = body]
    /\ finalImageUrl' = [finalImageUrl EXCEPT ![c] = body.imageUrl]
    /\ gc_pc' = [gc_pc EXCEPT ![c] =
                    IF hook = 2 /\ body.enabled THEN "composite" ELSE "strip"]

GenerateSettles(c) ==
    /\ gc_pc[c] = "generate"
    /\ \E body \in Responses : Receive(c, body)
    /\ UNCHANGED <<notCreative, hook, now, generatedCreatives, creativeId, gc_rec,
                   gc_comp, gc_strip>>

\* A rejection of compositeImages that reaches the outer catch
CompositeRethrown(c) ==
    /\ gc_comp' = [gc_comp EXCEPT ![c] = "rejected"]
    /\ Throw(c)
    /\ UNCHANGED finalImageUrl

\* lines 418-420: the rejection of compositeImages is caught and logged, and the
\* call goes on with the AI image
CompositeCaught(c) ==
    /\ gc_comp' = [gc_comp EXCEPT ![c] = "rejected"]
    /\ gc_pc' = [gc_pc EXCEPT ![c] = "strip"]
    /\ UNCHANGED <<generatedCreatives, finalImageUrl>>

\* lines 410-421: compositeImages settles
CompositeSettles(c) ==
    /\ gc_pc[c] = "composite"
    /\ \/ /\ Loadable(gc_data[c].imageUrl)
          /\ finalImageUrl' = [finalImageUrl EXCEPT ![c] = Composited(gc_data[c].imageUrl)]
          /\ gc_comp' = [gc_comp EXCEPT ![c] = "resolved"]
          /\ gc_pc' = [gc_pc EXCEPT ![c] = "strip"]
          /\ UNCHANGED generatedCreatives
       \/ CompositeCaught(c)
    /\ UNCHANGED <<notCreative, hook, now, creativeId, gc_rec, gc_data, gc_strip>>

\* lines 164-176 / 424-437: the import and stripTransparency settle; a rejection
\* is caught and logged; the record is marked 'completed' with finalImageUrl
StripSettles(c) ==
    /\ gc_pc[c] = "strip"
    /\ \E ok \in {TRUE, FALSE} :
          /\ ok => Loadable(finalImageUrl[c])
          /\ gc_strip' = [gc_strip EXCEPT ![c] = IF ok THEN "resolved" ELSE "rejected"]
          /\ finalImageUrl' = [finalImageUrl EXCEPT ![c] =
                                  IF ok THEN Flattened(finalImageUrl[c]) ELSE finalImageUrl[c]]
    /\ generatedCreatives' =
          MarkCompleted(generatedCreatives, creativeId[c], finalImageUrl'[c])
    /\ gc_pc' = [gc_pc EXCEPT ![c] = "done"]
    /\ UNCHANGED <<notCreative, hook, now, creativeId, gc_rec, gc_data, gc_comp>>

\* What the AI gateway answers to the generate-creative function: a refusal
\* with status 429 or 402 or another status, an empty or unparsable body, a
\* choice that carries an error, a message without an image, or an image
AiReplies ==
    {"rateLimited", "noCredits", "gatewayError", "empty", "invalid", "choiceError",
     "noImage", "image"}

\* A generate-creative function whose success response enables compositing
ServeEnabling(ai) ==
    IF ai = "image"
    THEN [status |-> 200, success |-> TRUE, imageUrl |-> AiImage, enabled |-> TRUE]
    ELSE [status |-> 500, success |-> FALSE, imageUrl |-> Undefined, enabled |-> FALSE]

\* generate-creative/index.ts, lines 83-157 (and the same at 506-560): every
\* return but the last answers with success false and a status that is not 2xx;
\* the last answers 200 with the image and compositing { enabled: false }
Serve(ai) ==
    IF ai = "image"
    THEN [status |-> 200, success |-> TRUE, imageUrl |-> AiImage, enabled |-> FALSE]
    ELSE [status |-> CASE ai = "rateLimited" -> 429
                       [] ai = "noCredits" -> 402
                       [] OTHER -> 500,
          success |-> FALSE, imageUrl |-> Undefined, enabled |-> FALSE]

\* lines 149-160 / 394-407 with the function of this repository behind
\* supabase.functions.invoke: a status that is not 2xx comes back as error,
\* which is thrown; a 200 comes back as data
ServeSettles(c) ==
    /\ gc_pc[c] = "generate"
    /\ \E ai \in AiReplies :
          IF Serve(ai).status = 200
          THEN /\ Receive(c, [imageUrl |-> Serve(ai).imageUrl,
                              enabled |-> Serve(ai).enabled])
               /\ UNCHANGED generatedCreatives
          ELSE /\ Throw(c)
               /\ UNCHANGED <<gc_data, finalImageUrl>>
    /\ UNCHANGED <<notCreative, hook, now, creativeId, gc_rec, gc_comp, gc_strip>>

NextCreative ==
    \/ Tick
    \/ \E c \in Calls : Start(c)
    \/ \E c \in Calls : RemoveBackgroundSettles(c)
    \/ \E c \in Calls : GenerateFails(c)
    \/ \E c \in Calls : GenerateSettles(c)
    \/ \E c \in Calls : CompositeSettles(c)
    \/ \E c \in Calls : StripSettles(c)

\* The hook in front of the generate-creative function of this repository
NextEndToEnd ==
    \/ Tick
    \/ \E c \in Calls : Start(c)
    \/ \E c \in Calls : RemoveBackgroundSettles(c)
    \/ \E c \in Calls : ServeSettles(c)
    \/ \E c \in Calls : StripSettles(c)

----------------------------------------------------------------------------
(* Calls of compositeImages and stripTransparency in flight together.  A   *)
(* call runs to its await of loadImage; each image loads or fails in its   *)
(* own time; when the awaited promise is fulfilled the rest of the call    *)
(* runs without interruption: it creates a canvas, paints and exports.     *)

MaxJobs == 2
MaxImages == 2

Jobs == 1..MaxJobs
ImageUrls == 1..MaxImages

\* The images a call loads (lines 534-537, 627)
Needs(fn) == IF fn = "compositeImages" THEN {"scene", "product"} ELSE {"scene"}

\* What a call paints, in order (lines 545-616, 632-634)
Painting(call) ==
    IF call.fn = "compositeImages"
    THEN <<"white", <<"image", call.scene>>, "ambient", "contact", "core",
           <<"image", call.product>>>>
    ELSE <<"white", <<"image", call.scene>>>>

\* A call that paints on the first canvas of the document
FirstCanvas(own) == 1

\* The canvas a call paints on: the one it created (lines 539, 628)
OwnCanvas(own) == own

\* canvas.width = ..., canvas.height = ...: the bitmap is cleared; then the
\* layers are painted by job j
Paint(cv, j, layers) ==
    [cv EXCEPT !.layers = [k \in 1..Len(layers) |-> [by |-> j, what |-> layers[k]]]]

\* canvas.toDataURL('image/jpeg', 0.95): what is on the canvas
Export(cv) == [k \in 1..Len(cv.layers) |-> cv.layers[k].what]

NoCall == [fn |-> "none", scene |-> 0, product |-> 0]

InitConcurrent ==
    /\ cc_call = [j \in Jobs |-> NoCall]
    /\ cc_pc = [j \in Jobs |-> "idle"]
    /\ cc_loaded = [j \in Jobs |-> {}]
    /\ cc_canvas = [j \in Jobs |-> 0]
    /\ cc_out = [j \in Jobs |-> <<>>]
    /\ canvases = <<>>

\* lines 526-537 / 626-627: the call starts loadImage for its images and awaits
Call(j) ==
    /\ cc_pc[j] = "idle"
    /\ \E fn \in {"compositeImages", "stripTransparency"}, s \in ImageUrls, p \in ImageUrls :
          /\ fn = "stripTransparency" => p = s
          /\ cc_call' = [cc_call EXCEPT ![j] = [fn |-> fn, scene |-> s, product |-> p]]
    /\ cc_pc' = [cc_pc EXCEPT ![j] = "loading"]
    /\ UNCHANGED <<notConcurrent, cc_loaded, cc_canvas, cc_out, canvases>>

\* lines 799: img.onload = () => resolve(img)
ImageLoads(j) ==
    /\ cc_pc[j] = "loading"
    /\ \E i \in Needs(cc_call[j].fn) \ cc_loaded[j] :
          cc_loaded' = [cc_loaded EXCEPT ![j] = cc_loaded[j] \cup {i}]
    /\ UNCHANGED <<notConcurrent, cc_call, cc_pc, cc_canvas, cc_out, canvases>>

\* line 800: img.onerror = reject; the call rejects
ImageFails(j) ==
    /\ cc_pc[j] = "loading"
    /\ Needs(cc_call[j].fn) \ cc_loaded[j] # {}
    /\ cc_pc' = [cc_pc EXCEPT ![j] = "rejected"]
    /\ UNCHANGED <<notConcurrent, cc_call, cc_loaded, cc_canvas, cc_out, canvases>>

\* lines 539-619 / 628-635: all images are loaded; the call creates its canvas,
\* paints it and returns its export
Resume(j) ==
    /\ cc_pc[j] = "loading"
    /\ cc_loaded[j] = Needs(cc_call[j].fn)
    /\ LET created == Len(canvases) + 1
           target  == OwnCanvas(created)
           all     == Append(canvases, [owner |-> j, layers |-> <<>>])
           after   == [all EXCEPT ![target] = Paint(all[target], j, Painting(cc_call[j]))]
       IN  /\ canvases' = after
           /\ cc_canvas' = [cc_canvas EXCEPT ![j] = created]
           /\ cc_out' = [cc_out EXCEPT ![j] = Export(after[target])]
    /\ cc_pc' = [cc_pc EXCEPT ![j] = "done"]
    /\ UNCHANGED <<notConcurrent, cc_call, cc_loaded>>

NextConcurrent ==
    \/ \E j \in Jobs : Call(j)
    \/ \E j \in Jobs : ImageLoads(j)
    \/ \E j \in Jobs : ImageFails(j)
    \/ \E j \in Jobs : Resume(j)

----------------------------------------------------------------------------
(* resizeBase64Image (lines 779-794): an image larger than maxDim in either *)
(* dimension is drawn onto a canvas scaled to fit and exported.             *)

MaxSide == 6
MaxDim == 3

\* Math.min of two numbers
MathMin(a, b) == IF FLe(a, b) THEN a ELSE b

\* line 784: scale = Math.min(maxDim / w, maxDim / h)
ResizeScale(w, h, maxDim) ==
    MathMin(FDiv(FInt(maxDim), FInt(w)), FDiv(FInt(maxDim), FInt(h)))

\* lines 785-786: nw = Math.round(w * scale), nh = Math.round(h * scale)
ResizeTo(w, h, scale) ==
    [nw |-> MathRound(FMul(FInt(w), scale)), nh |-> MathRound(FMul(FInt(h), scale))]

NoResize == [kind |-> "none", nw |-> 0, nh |-> 0]

InitResize ==
    /\ rz_pc = "load"
    /\ rz_w \in 1..MaxSide
    /\ rz_h \in 1..MaxSide
    /\ rz_maxDim \in 1..MaxDim
    /\ rz_out = NoResize

\* line 780: loadImage rejects, and so does the call
RzLoadFails ==
    /\ rz_pc = "load"
    /\ rz_pc' = "rejected"
    /\ UNCHANGED <<notResize, rz_w, rz_h, rz_maxDim, rz_out>>

\* lines 781-782: the image is small enough, the input URL is returned
RzReturnSame ==
    /\ rz_pc = "load"
    /\ rz_w <= rz_maxDim /\ rz_h <= rz_maxDim
    /\ rz_out' = [kind |-> "same", nw |-> rz_w, nh |-> rz_h]
    /\ rz_pc' = "done"
    /\ UNCHANGED <<notResize, rz_w, rz_h, rz_maxDim>>

\* lines 784-793: the image is scaled onto a canvas nw x nh, which is exported
RzResize ==
    /\ rz_pc = "load"
    /\ ~(rz_w <= rz_maxDim /\ rz_h <= rz_maxDim)
    /\ rz_out' = [kind |-> "canvas"] @@ ResizeTo(rz_w, rz_h, ResizeScale(rz_w, rz_h, rz_maxDim))
    /\ rz_pc' = "done"
    /\ UNCHANGED <<notResize, rz_w, rz_h, rz_maxDim>>

NextResize ==
    \/ RzLoadFails
    \/ RzReturnSame
    \/ RzResize

----------------------------------------------------------------------------
(* generateCreative, lines 409-430: the image of compositeImages, or of a   *)
(* stripTransparency, is a JPEG export; stripTransparency is applied to it, *)
(* followed at one pixel.                                                   *)

\* A decoder that hands back a translucent pixel
DecodeTranslucent(rgb) == <<rgb[1], rgb[2], rgb[3], 128>>

\* line 627: loadImage of a JPEG data URL; the format has no alpha channel, the
\* decoded pixel is opaque
DecodeJpeg(rgb) == <<rgb[1], rgb[2], rgb[3], 255>>

\* lines 628-634 (and 539-548): a new canvas is filled with white
WhiteCanvas(up) == SrcOver(<<0, 0, 0, 0>>, <<255, 255, 255, 255>>, up)

\* The sources drawn one after the other over the pixel
RECURSIVE DrawAll(_, _, _)
DrawAll(px, layers, up) ==
    IF layers = <<>> THEN px
    ELSE DrawAll(SrcOver(px, Head(layers), up), Tail(layers), up)

\* What the first function draws at the pixel: stripTransparency its image,
\* compositeImages the scene and, where the pixel is covered, the product
FirstLayers(fn) ==
    IF fn = "stripTransparency" THEN { <<s>> : s \in Sources }
    ELSE { <<s>> : s \in Sources } \cup { <<s, p>> : s \in Sources, p \in Sources }

InitReflatten ==
    /\ rf_pc = "first"
    /\ rf_fn \in {"compositeImages", "stripTransparency"}
    /\ rf_layers = <<>>
    /\ rf_first = <<>>
    /\ rf_img = <<>>
    /\ rf_out = <<>>

\* lines 412-417 / 426: the first flatten resolves with its export, and
\* stripTransparency is called with it
RfFirst ==
    /\ rf_pc = "first"
    /\ \E layers \in FirstLayers(rf_fn), up \in BOOLEAN :
          /\ rf_layers' = layers
          /\ rf_first' = EncodeJpeg(DrawAll(WhiteCanvas(up), layers, up), up)
    /\ rf_pc' = "load"
    /\ UNCHANGED <<notReflatten, rf_fn, rf_img, rf_out>>

\* line 627: loadImage rejects, and so does stripTransparency
RfLoadFails ==
    /\ rf_pc = "load"
    /\ rf_pc' = "rejected"
    /\ UNCHANGED <<notReflatten, rf_fn, rf_layers, rf_first, rf_img, rf_out>>

\* lines 627-635: the image loads; white fill, drawImage, toDataURL
RfStrip ==
    /\ rf_pc = "load"
    /\ rf_img' = DecodeJpeg(rf_first)
    /\ \E up \in BOOLEAN :
          rf_out' = EncodeJpeg(SrcOver(WhiteCanvas(up), rf_img', up), up)
    /\ rf_pc' = "done"
    /\ UNCHANGED <<notReflatten, rf_fn, rf_layers, rf_first>>

NextReflatten ==
    \/ RfFirst
    \/ RfLoadFails
    \/ RfStrip

----
IdlePlace ==
    /\ ci_pc = "idle"
    /\ naturalWidth = 1
    /\ naturalHeight = 1
    /\ productPosition = [x |-> 0, y |-> 0, width |-> 1, height |-> 1]
    /\ canvasSize = NoSize
    /\ ci_canvas = NoSize
    /\ draw = NoDraw
    /\ shadows = <<>>
    /\ painted = <<>>
    /\ ops = <<>>
    /\ ci_out = NoSize
    /\ ci_err = "none"

IdleClassify ==
    /\ cl_op = "none"
    /\ img = [width |-> 0, height |-> 0, data |-> <<>>]
    /\ canvas = [width |-> 0, height |-> 0]
    /\ data = <<>>
    /\ cl_i = 0
    /\ cl_pc = "idle"
    /\ cl_pass = 0
    /\ cl_last = NoWrite

IdleRaster ==
    /\ rs_fn = "none"
    /\ rs_k = 0
    /\ rs_px = <<0, 0, 0, 0>>
    /\ rs_layers = <<>>
    /\ rs_out = <<>>

IdleBackdrop ==
    /\ bd_pc = "idle"
    /\ bd_nw = 1
    /\ bd_nh = 1
    /\ bd_backdrop = NoSize
    /\ bd_canvas = NoSize
    /\ bd_draw = NoDraw
    /\ bd_shadows = <<>>
    /\ bd_painted = <<>>
    /\ bd_ops = <<>>
    /\ bd_out = NoSize
    /\ bd_err = "none"

IdleShade ==
    /\ sh_pc = "idle"
    /\ sh_in = [nw |-> 1, nh |-> 1, c |-> NoSize,
                p |-> [x |-> 0, y |-> 0, width |-> 1, height |-> 1]]
    /\ sh_up = FALSE
    /\ sh_draw = NoDraw
    /\ sh_shadows = <<>>
    /\ sh_base = <<0, 0>>
    /\ sh_p = NoPixel
    /\ sh_q = NoPixel
    /\ sh_k = 0
    /\ sh_greyP = 255
    /\ sh_greyQ = 255

IdleCreative ==
    /\ hook = 0
    /\ now = 0
    /\ generatedCreatives = <<>>
    /\ gc_pc = [c \in Calls |-> "idle"]
    /\ creativeId = [c \in Calls |-> 0]
    /\ gc_rec = [c \in Calls |-> 0]
    /\ gc_data = [c \in Calls |-> NoData]
    /\ finalImageUrl = [c \in Calls |-> Undefined]
    /\ gc_comp = [c \in Calls |-> "none"]
    /\ gc_strip = [c \in Calls |-> "none"]

IdleConcurrent ==
    /\ cc_call = [j \in Jobs |-> NoCall]
    /\ cc_pc = [j \in Jobs |-> "none"]
    /\ cc_loaded = [j \in Jobs |-> {}]
    /\ cc_canvas = [j \in Jobs |-> 0]
    /\ cc_out = [j \in Jobs |-> <<>>]
    /\ canvases = <<>>

IdleResize ==
    /\ rz_pc = "idle"
    /\ rz_w = 1
    /\ rz_h = 1
    /\ rz_maxDim = 1
    /\ rz_out = NoResize

IdleReflatten ==
    /\ rf_pc = "idle"
    /\ rf_fn = "none"
    /\ rf_layers = <<>>
    /\ rf_first = <<>>
    /\ rf_img = <<>>
    /\ rf_out = <<>>

\* The placement of compositeImages alone
InitPlaceOnly == IdleClassify /\ IdleRaster /\ IdleBackdrop /\ IdleShade /\ IdleCreative
        /\ IdleConcurrent /\ IdleResize
        /\ IdleReflatten
        /\ InitPlace
SpecPlace == InitPlaceOnly /\ [][NextPlace]_vars

\* A classifier alone
InitClassifyOnly == IdlePlace /\ IdleRaster /\ IdleBackdrop /\ IdleShade /\ IdleCreative
        /\ IdleConcurrent /\ IdleResize
        /\ IdleReflatten
        /\ InitClassify
SpecClassify == InitClassifyOnly /\ [][NextClassify]_vars

\* A JPEG-exporting function alone, at one pixel
InitRasterOnly == IdlePlace /\ IdleClassify /\ IdleBackdrop /\ IdleShade /\ IdleCreative
        /\ IdleConcurrent /\ IdleResize
        /\ IdleReflatten
        /\ InitRaster
SpecRaster == InitRasterOnly /\ [][NextRaster]_vars

\* compositeProductOnBackdrop alone
InitBackdropOnly == IdlePlace /\ IdleClassify /\ IdleRaster /\ IdleShade /\ IdleCreative
        /\ IdleConcurrent /\ IdleResize
        /\ IdleReflatten
        /\ InitBackdrop
SpecBackdrop == InitBackdropOnly /\ [][NextBackdrop]_vars

\* The shadows of compositeImages alone, at two probes
InitShadeOnly == IdlePlace /\ IdleClassify /\ IdleRaster /\ IdleBackdrop /\ IdleCreative
        /\ IdleConcurrent /\ IdleResize
        /\ IdleReflatten
        /\ InitShade
SpecShade == InitShadeOnly /\ [][NextShade]_vars

\* generateCreative alone; every await settles in the end
InitCreativeOnly ==
    IdlePlace /\ IdleClassify /\ IdleRaster /\ IdleBackdrop /\ IdleShade /\ IdleConcurrent
        /\ IdleResize
        /\ IdleReflatten
        /\ InitCreative
SpecCreative == InitCreativeOnly /\ [][NextCreative]_vars /\ WF_vars(NextCreative)

\* generateCreative in front of the generate-creative function of this repository
SpecEndToEnd == InitCreativeOnly /\ [][NextEndToEnd]_vars

\* Calls of compositeImages and stripTransparency in flight together
InitConcurrentOnly ==
    IdlePlace /\ IdleClassify /\ IdleRaster /\ IdleBackdrop /\ IdleShade /\ IdleCreative
        /\ IdleResize
        /\ IdleReflatten
        /\ InitConcurrent
SpecConcurrent == InitConcurrentOnly /\ [][NextConcurrent]_vars

\* The same calls with what the code schedules itself: a call whose images have
\* all loaded goes on (the fulfilled promise resumes it).  Nothing in loadImage
\* makes a pending image load or fail: there is no timer
SpecLoading ==
    InitConcurrentOnly /\ [][NextConcurrent]_vars /\ WF_vars(\E j \in Jobs : Resume(j))

\* resizeBase64Image alone
InitResizeOnly ==
    IdlePlace /\ IdleClassify /\ IdleRaster /\ IdleBackdrop /\ IdleShade
        /\ IdleCreative /\ IdleConcurrent /\ IdleReflatten
        /\ InitResize
SpecResize == InitResizeOnly /\ [][NextResize]_vars

\* The second flatten alone
InitReflattenOnly ==
    IdlePlace /\ IdleClassify /\ IdleRaster /\ IdleBackdrop /\ IdleShade
        /\ IdleCreative /\ IdleConcurrent /\ IdleResize /\ InitReflatten
SpecReflatten == InitReflattenOnly /\ [][NextReflatten]_vars

Placed == ci_pc \in {"ambient", "contact", "core", "product", "export", "done"}

\* An integer of any size below 2^31 as an exact number
XInt(n) == [s |-> IF n < 0 THEN -1 ELSE 1, m |-> BFromInt(Abs(n)), e |-> 0]

\* Floating-point tolerance: the number d is num/den up to a relative error of
\* 2^-52 (two roundings), for positive integers num and den
TolBits == Precision - 1
WithinTolerance(d, num, den) ==
    XCmp(XShift(XAbs(XSub(XMulInt(d, den), XInt(num))), TolBits), XInt(num)) <= 0

\* The product is relatively wider than the box (exact comparison of the ratios)
Wider == naturalWidth * productPosition.height > productPosition.width * naturalHeight

\* C1  Bottom anchoring: once placed, drawY + drawH, evaluated as the program
\* evaluates it (binary64), equals y + height exactly, in both branches, for
\* every product size and every rect with x, y >= 0 and width, height > 0.
BottomAnchored ==
    Placed =>
        FAdd(draw.drawY, draw.drawH)
            = FAdd(FInt(productPosition.y), FInt(productPosition.height))

\* C1 witness: fit-to-width branch with a drawn height that is not an integer
BottomAnchoredWitness ==
    /\ Placed
    /\ Wider
    /\ (productPosition.width * naturalHeight) % naturalWidth # 0
    /\ productPosition.y > 0

\* C2  Aspect preservation: once placed, drawW / drawH equals
\* naturalWidth / naturalHeight within floating-point tolerance:
\* |drawW * naturalHeight - drawH * naturalWidth| <= 2^-52 * drawH * naturalWidth,
\* the products taken exactly.
AspectPreserved ==
    Placed =>
        XCmp(XShift(XAbs(XSub(XMulInt(draw.drawW, naturalHeight),
                              XMulInt(draw.drawH, naturalWidth))), TolBits),
             XMulInt(draw.drawH, naturalWidth)) <= 0

\* C2 witness: fit-to-height branch, box of another aspect, inexact drawn width
AspectPreservedWitness ==
    /\ Placed
    /\ ~Wider
    /\ naturalWidth * productPosition.height # productPosition.width * naturalHeight
    /\ (productPosition.height * naturalWidth) % naturalHeight # 0

PlacementScenario ==
    /\ naturalWidth = 100
    /\ naturalHeight = 200
    /\ productPosition = [x |-> 0, y |-> 0, width |-> 300, height |-> 100]

\* C3  Placement rule: a relatively wider product is fitted to the box width with
\* the left edge unchanged (drawW = width, drawH = width * naturalHeight /
\* naturalWidth up to rounding, drawX = x); otherwise it is fitted to the box
\* height, centred and drawY = y (drawH = height, drawW = height * naturalWidth /
\* naturalHeight up to rounding, drawX = x + (width - drawW) / 2).  A 100x200
\* product in {0, 0, 300, 100} is drawn at {125, 0, 50, 100}.
PlacementRule ==
    Placed =>
        /\ Wider =>
              /\ draw.drawW = FInt(productPosition.width)
              /\ draw.drawX = FInt(productPosition.x)
              /\ WithinTolerance(draw.drawH, productPosition.width * naturalHeight,
                                 naturalWidth)
        /\ ~Wider =>
              /\ draw.drawH = FInt(productPosition.height)
              /\ draw.drawY = FInt(productPosition.y)
              /\ WithinTolerance(draw.drawW, productPosition.height * naturalWidth,
                                 naturalHeight)
              /\ draw.drawX = FAdd(FInt(productPosition.x),
                                   FDiv(FSub(FInt(productPosition.width), draw.drawW),
                                        FInt(2)))
        /\ PlacementScenario =>
              draw = [drawX |-> FInt(125), drawY |-> FInt(0),
                      drawW |-> FInt(50), drawH |-> FInt(100)]

\* C3 witness: the scenario has been placed
PlacementRuleWitness == Placed /\ PlacementScenario /\ ci_pc = "done"
----------------------------------------------------------------------------
(* Claims about the canvas content (SpecRaster)                            *)

RasterDone == RsStep = "done"

\* The canvas has been created and filled: the first two calls are done
Filled == rs_fn \in {"compositeImages", "stripTransparency"} /\ rs_k > 2

\* C4  No-alpha output: in compositeImages and stripTransparency, from the white
\* fill on, the canvas pixel is fully opaque whatever the scene, the shadows and
\* the product contribute, and so is the pixel the export encodes.
NoAlphaOutput == Filled => rs_px[4] = 255

\* C4 witness: compositeImages has exported a pixel over which a translucent
\* scene, a shadow and a translucent product were drawn
NoAlphaOutputWitness ==
    /\ rs_fn = "compositeImages"
    /\ RasterDone
    /\ \E i \in 1..Len(rs_layers) :
          rs_layers[i].layer = "scene" /\ rs_layers[i].src[4] < 255
    /\ \E i \in 1..Len(rs_layers) : rs_layers[i].layer = "core"
    /\ \E i \in 1..Len(rs_layers) :
          /\ rs_layers[i].layer = "product"
          /\ rs_layers[i].src[4] > 0
          /\ rs_layers[i].src[4] < 255

\* C5  Flatten over white: in each of the three functions, a source pixel of
\* colour c and alpha a that is the only thing drawn at a position is exported
\* as c * a + 255 * (1 - a), to the precision of a byte.
FlattenOverWhite ==
    (RasterDone /\ Len(rs_layers) = 1) =>
        LET src == rs_layers[1].src IN
        \A k \in 1..3 :
            LET exact == src[k] * src[4] + 255 * (255 - src[4])
            IN  rs_out[k] \in {exact \div 255, DivRound(exact, 255, TRUE)}

----------------------------------------------------------------------------
(* Claims about the classifiers (SpecClassify)                             *)

Running == cl_pc \in {"loop", "done"}

PixelCount == Len(data) \div 4

\* Pixel n (from 0) of a buffer
PixelOf(d, n) == <<d[4 * n + 1], d[4 * n + 2], d[4 * n + 3], d[4 * n + 4]>>

\* The alpha the white-strip rule gives a pixel
WhiteExpected(p) ==
    IF p[1] > 240 /\ p[2] > 240 /\ p[3] > 240 THEN 0
    ELSE IF p[1] > 220 /\ p[2] > 220 /\ p[3] > 220
    THEN MathRound(FMul(FInt(255),
                        FSub(FInt(1), FDiv(FInt(p[1] + p[2] + p[3]), FInt(765)))))
    ELSE p[4]

\* The alpha the chroma-key rule gives a pixel
ChromaExpected(p) ==
    IF p[2] > 180 /\ p[1] < 120 /\ p[3] < 120 THEN 0
    ELSE IF /\ p[2] > 150
            /\ FGt(FInt(p[2]), FMul(FLit(14, 10), FInt(p[1])))
            /\ FGt(FInt(p[2]), FMul(FLit(14, 10), FInt(p[3])))
    THEN MathRound(FMul(FInt(255),
                        FSub(FInt(1), FDiv(FInt(p[2] - Max(p[1], p[3])), FInt(p[2])))))
    ELSE p[4]

\* C6  removeWhiteBackground, per pixel: alpha 0 if r, g, b > 240; else
\* round(255 * (1 - (r + g + b) / 765)) if r, g, b > 220; else the alpha is left
\* as it was ((0, 0, 0, 255) stays 255).  Every pixel the loop has passed has
\* the alpha its own bytes give it, every other pixel is untouched.
WhiteRule ==
    (cl_op = "white" /\ Running) =>
        /\ \A n \in 0..(PixelCount - 1) :
              data[4 * n + 4] = IF 4 * n < cl_i THEN WhiteExpected(PixelOf(img.data, n))
                                ELSE img.data[4 * n + 4]
        /\ (cl_pc = "done" /\ img.data = <<0, 0, 0, 255>>) => data[4] = 255

\* C6 witness: a two-pixel image is done, the first pixel in the soft band got a
\* partial alpha and the second, outside both bands, kept its alpha
WhiteRuleWitness ==
    /\ cl_op = "white" /\ cl_pc = "done" /\ cl_pass = 1
    /\ Len(data) = 8
    /\ PixelOf(img.data, 0) = <<230, 230, 230, 255>> /\ data[4] = 25
    /\ PixelOf(img.data, 1) = <<0, 0, 0, 255>> /\ data[8] = 255

Idempotent ==
    (cl_pass = 2 /\ Running) =>
        \A n \in 0..(PixelCount - 1) : data[4 * n + 4] = img.data[4 * n + 4]

\* C8 witness: the second pass is done and its last iteration assigned a partial
\* alpha again
IdempotentWitness ==
    /\ cl_pass = 2 /\ cl_pc = "done"
    /\ cl_last.written /\ cl_last.value > 0 /\ cl_last.value < 255

\* C9  Alpha range: the value either classifier assigns to data[i + 3] is an
\* integer in 0..255 before any clamping, and so is every alpha byte.
AlphaRange ==
    /\ cl_last.written => cl_last.value \in 0..255
    /\ Running => \A n \in 0..(PixelCount - 1) : data[4 * n + 4] \in 0..255

\* C9 witness: the chroma soft band assigned a partial alpha
AlphaRangeWitness ==
    /\ cl_op = "chroma" /\ cl_pc = "loop" /\ cl_i = 4
    /\ cl_last.written /\ cl_last.value > 0 /\ cl_last.value < 255

\* C10  Only the alpha channel is mutated: the R, G and B bytes of every pixel
\* equal those of the input and the buffer keeps the input's width and height.
OnlyAlphaMutated ==
    Running =>
        /\ Len(data) = Len(img.data)
        /\ \A k \in 1..Len(data) : k % 4 # 0 => data[k] = img.data[k]
        /\ canvas.width = img.width /\ canvas.height = img.height
        /\ Len(data) = 4 * canvas.width * canvas.height

\* C10 witness: a 2x1 image is done and an alpha byte has changed
OnlyAlphaMutatedWitness ==
    /\ cl_pc = "done" /\ cl_pass = 1
    /\ canvas.width = 2
    /\ \E n \in 0..(PixelCount - 1) : data[4 * n + 4] # img.data[4 * n + 4]

AllAbove(p, t) == p[1] > t /\ p[2] > t /\ p[3] > t

\* C11  White-strip soft band is strictly partial: every pixel the loop of
\* removeWhiteBackground has passed whose r, g, b are all > 220 but not all > 240
\* has an alpha strictly between 0 and 255, and every pixel with r, g, b all
\* > 240 has alpha 0.
SoftBandPartial ==
    (cl_op = "white" /\ Running) =>
        \A n \in 0..(PixelCount - 1) :
            4 * n < cl_i =>
                LET p == PixelOf(img.data, n) IN
                /\ AllAbove(p, 240) => data[4 * n + 4] = 0
                /\ (AllAbove(p, 220) /\ ~AllAbove(p, 240)) =>
                       (0 < data[4 * n + 4] /\ data[4 * n + 4] < 255)

\* C11 witness: a pixel with two channels above 240 and one at 221, fully
\* transparent on input, has been given a partial alpha
SoftBandPartialWitness ==
    /\ cl_op = "white" /\ cl_pc = "done" /\ cl_pass = 1
    /\ img.data = <<255, 221, 241, 0>>
    /\ data[4] > 0 /\ data[4] < 255

----------------------------------------------------------------------------
(* Claims about the canvas calls of compositeImages (SpecPlace)            *)

IsPrefix(s, t) == Len(s) <= Len(t) /\ \A k \in 1..Len(s) : s[k] = t[k]

LayerSequence ==
    <<"createCanvas", "fillWhite", "drawScene", "ambientShadow", "contactShadow",
      "coreShadow", "drawProduct", "toDataURL">>

\* C12  Layer order in compositeImages: at every moment of every run the canvas
\* operations issued so far are the beginning of: (canvas created,) white fill,
\* scene, ambient shadow, contact shadow, core shadow, product, JPEG export; a run
\* that completes has issued all of them.  Hence no shadow comes after the product
\* and the product never comes before the three shadows.
LayerOrder ==
    /\ IsPrefix(ops, LayerSequence)
    /\ ci_pc = "done" => ops = LayerSequence

\* C12 witness: a run has completed with the product drawn and exported
LayerOrderWitness ==
    /\ ci_pc = "done"
    /\ Len(ops) = 8
    /\ ops[7] = "drawProduct"
    /\ Len(shadows) = 3

----------------------------------------------------------------------------
(* Claims about the shadows (SpecPlace, SpecBackdrop)                      *)

\* The shadows are complete: the product is about to be drawn or has been
ShadowsPainted(pc) == pc \in {"product", "export", "done"}

LayersOf(sh) == [k \in 1..Len(sh) |-> sh[k].layer]

\* cx and cy of a draw rectangle
BaseX(d) == FAdd(d.drawX, FDiv(d.drawW, FInt(2)))
BaseY(d) == FAdd(d.drawY, d.drawH)

ThreeShadowsAtBase(pc, sh, d) ==
    ShadowsPainted(pc) =>
        /\ LayersOf(sh) = <<"ambient", "contact", "core">>
        /\ \A k \in 1..Len(sh) : sh[k].gy = BaseY(d)

\* C13  Every operation that places a product on a background (compositeImages,
\* compositeProductOnBackdrop) has painted exactly three shadows, ambient, contact
\* and core in that order, their gradients centred on the bottom edge of the draw
\* rectangle, when it comes to draw the product.
ThreeShadowLayers ==
    /\ ThreeShadowsAtBase(ci_pc, shadows, draw)
    /\ ThreeShadowsAtBase(bd_pc, bd_shadows, bd_draw)

\* The radii and peak alphas of ShadowParams
OuterRadius == FLit(70, 100)
MidRadius == FLit(38, 100)
InnerRadius == FLit(22, 100)

Peak(s) == s.stops[1].alpha

ParamsOf(sh, d) ==
    \A k \in 1..Len(sh) :
        LET s == sh[k] IN
        /\ s.stops[1].at = 0
        /\ s.layer = "ambient" =>
              s.r1 = FMul(d.drawW, OuterRadius) /\ Peak(s) >= 10 /\ Peak(s) <= 12
        /\ s.layer = "contact" =>
              s.r1 = FMul(d.drawW, MidRadius) /\ Peak(s) >= 18 /\ Peak(s) <= 22
        /\ s.layer = "core" =>
              s.r1 = FMul(d.drawW, InnerRadius) /\ Peak(s) = 28

\* C14  ShadowParams conformance: in every compositing operation each shadow
\* painted has the gradient radius 0.70 drawW (ambient), 0.38 drawW (contact) or
\* 0.22 drawW (core), and a peak alpha of 0.10 to 0.12 (ambient), 0.18 to 0.22
\* (contact) or 0.28 (core).
ShadowParamsConform ==
    /\ ParamsOf(shadows, draw)
    /\ ParamsOf(bd_shadows, bd_draw)

\* The geometry the specification gives each shadow of compositeImages: the
\* offset of the centre from (cx, cy), the semi-axes as fractions of drawW and
\* drawH, and the colour stops
ShadowSheet ==
    [ambient |-> [dx |-> FZero, dy |-> FInt(4),
                  rx |-> FLit(65, 100), ry |-> FLit(6, 100),
                  stops |-> <<Stop(0, 10), Stop(40, 5), Stop(70, 2), Stop(100, 0)>>],
     contact |-> [dx |-> FLit(3, 100), dy |-> FInt(2),
                  rx |-> FLit(38, 100), ry |-> FLit(25, 1000),
                  stops |-> <<Stop(0, 18), Stop(40, 8), Stop(100, 0)>>],
     core    |-> [dx |-> FZero, dy |-> FInt(1),
                  rx |-> FLit(22, 100), ry |-> FLit(12, 1000),
                  stops |-> <<Stop(0, 28), Stop(50, 10), Stop(100, 0)>>]]

\* The ellipse of a shadow is the one of the sheet
EllipseAsSheet(s, d) ==
    LET e == ShadowSheet[s.layer] IN
    /\ s.ex = FAdd(BaseX(d), FMul(d.drawW, e.dx))
    /\ s.ey = FAdd(BaseY(d), e.dy)
    /\ s.rx = FMul(d.drawW, e.rx)
    /\ s.ry = FMul(d.drawH, e.ry)
    /\ s.stops = e.stops

\* C15 as stated: each shadow of compositeImages has one centre, shared by its
\* gradient and its ellipse: (cx, cy + 4), (cx + 0.03 drawW, cy + 2), (cx, cy + 1),
\* with the semi-axes and the stops of the sheet.
ShadowCentresShared ==
    \A k \in 1..Len(shadows) :
        /\ EllipseAsSheet(shadows[k], draw)
        /\ shadows[k].gx = shadows[k].ex
        /\ shadows[k].gy = shadows[k].ey

\* C15 amended: the ellipse of each shadow is centred at (cx, cy + 4),
\* (cx + 0.03 drawW, cy + 2), (cx, cy + 1), with the semi-axes and the stops of the
\* sheet; the gradient is centred above it, on the base line: at (cx, cy),
\* (cx + 0.03 drawW, cy), (cx, cy), starting from radius 0.
ShadowCentres ==
    \A k \in 1..Len(shadows) :
        LET s == shadows[k] IN
        /\ EllipseAsSheet(s, draw)
        /\ s.gx = s.ex
        /\ s.gy = BaseY(draw)
        /\ s.r0 = FZero

\* C15 witness: the three shadows of a 4 x 3 product, drawn 2.25 high, in the
\* 3 x 3 box at x = 1, y = 2: base line at 5, ambient ellipse centred at 9
ShadowCentresWitness ==
    /\ ci_pc = "done"
    /\ LayersOf(shadows) = <<"ambient", "contact", "core">>
    /\ naturalWidth = 4 /\ naturalHeight = 3
    /\ productPosition = [x |-> 1, y |-> 2, width |-> 3, height |-> 3]
    /\ shadows[1].ey = FInt(9)
    /\ shadows[1].gy = FInt(5)

----------------------------------------------------------------------------
(* Claims about the canvas bounds (SpecPlace)                              *)

NonEmpty(g) == g.x.lo < g.x.hi /\ g.y.lo < g.y.hi

Inside(g, cv) ==
    /\ 0 <= g.x.lo /\ g.x.hi <= cv.width
    /\ 0 <= g.y.lo /\ g.y.hi <= cv.height

\* The rectangle leaves the canvas: partly, or wholly
ExceedsCanvas ==
    \/ productPosition.x + productPosition.width > canvasSize.width
    \/ productPosition.y + productPosition.height > canvasSize.height

WhollyOutside ==
    \/ productPosition.x >= canvasSize.width
    \/ productPosition.y >= canvasSize.height

----------------------------------------------------------------------------
\* C16 (as claimed): on a white scene, once compositeImages has painted the three
\* shadows, a visible pixel inside the core ellipse is strictly darker than a
\* pixel covered by the ambient shadow only at the same distance from the base
\* point of the shadows, whatever the placement
ShadowOrderingAnywhere == sh_pc = "done" => sh_greyP < sh_greyQ

\* The draw rectangle is (100, 100, 200, 200) on a canvas of 400 x 400
ShadowScenario ==
    /\ sh_in.c = [width |-> 400, height |-> 400]
    /\ sh_draw = [drawX |-> FInt(100), drawY |-> FInt(100),
                  drawW |-> FInt(200), drawH |-> FInt(200)]

\* C16: when the product is drawn at (100, 100, 200, 200) on a white canvas of
\* 400 x 400, once the three shadows are painted a visible pixel inside the core
\* ellipse is strictly darker than a pixel covered by the ambient shadow only at
\* the same distance from the base point, however the rasteriser rounds
ShadowOrdering == (sh_pc = "done" /\ ShadowScenario) => sh_greyP < sh_greyQ

\* In the scenario, both probes are shaded: the core probe just below the
\* product's base line, and an ambient-only probe as far from (200, 300)
ShadowOrderingWitness ==
    /\ sh_pc = "done"
    /\ ShadowScenario
    /\ InCore(sh_shadows, sh_p)
    /\ AmbientOnly(sh_shadows, sh_q)
    /\ Equidistant(sh_shadows, sh_p, sh_q)
    /\ sh_greyP < sh_greyQ


----------------------------------------------------------------------------
\* The record the invocation appended
Creative(c) == generatedCreatives[gc_rec[c]]

\* The images that derive from the AI image of the invocation without
\* compositing: the image itself and its flattening
FromAiImage(c) == {gc_data[c].imageUrl, Flattened(gc_data[c].imageUrl)}

AlphaFreeDeliveryAlways ==
    \A k \in DOMAIN generatedCreatives :
        generatedCreatives[k].status = "completed" =>
            generatedCreatives[k].outputImageUrl.flattened

\* The invocation stored its finalImageUrl in the record
StoredBy(c, k) ==
    /\ gc_pc[c] = "done"
    /\ gc_strip[c] # "none"
    /\ creativeId[c] = generatedCreatives[k].id
    /\ finalImageUrl[c] = generatedCreatives[k].outputImageUrl

\* C19: every creative marked 'completed' carries the finalImageUrl of an
\* invocation with its id; that image passed through a white fill and JPEG
\* export when stripTransparency or compositeImages resolved in the invocation,
\* and is data.imageUrl as received when neither did
AlphaFreeDelivery ==
    \A k \in DOMAIN generatedCreatives :
        generatedCreatives[k].status = "completed" =>
            \E c \in Calls :
                /\ StoredBy(c, k)
                /\ IF gc_strip[c] = "resolved" \/ gc_comp[c] = "resolved"
                   THEN generatedCreatives[k].outputImageUrl.flattened
                   ELSE generatedCreatives[k].outputImageUrl = gc_data[c].imageUrl

\* Both cases are delivered: a creative whose stripTransparency resolved, and a
\* creative that carries the AI image as received because it rejected
AlphaFreeDeliveryWitness ==
    \E c, d \in Calls :
        /\ gc_pc[c] = "done" /\ gc_strip[c] = "resolved"
        /\ Creative(c).status = "completed" /\ Creative(c).outputImageUrl.flattened
        /\ gc_pc[d] = "done" /\ gc_strip[d] = "rejected" /\ gc_comp[d] # "resolved"
        /\ Creative(d).status = "completed" /\ Creative(d).outputImageUrl = AiImage


----------------------------------------------------------------------------
\* C20: when calls of compositeImages and stripTransparency are in flight together
\* and their image loads settle in any order, every canvas carries only what the
\* call that created it painted, and a call that has returned returned what it
\* paints when run alone, which its canvas still carries
NoSharedCanvas ==
    /\ \A k \in DOMAIN canvases :
          \A l \in DOMAIN canvases[k].layers :
              canvases[k].layers[l].by = canvases[k].owner
    /\ \A j \in Jobs :
          cc_pc[j] = "done" =>
              /\ cc_canvas[j] \in DOMAIN canvases
              /\ canvases[cc_canvas[j]].owner = j
              /\ cc_out[j] = Painting(cc_call[j])
              /\ Export(canvases[cc_canvas[j]]) = cc_out[j]

\* Two calls have returned, a compositeImages and a stripTransparency of different
\* images, the one started first having created its canvas last
NoSharedCanvasWitness ==
    /\ cc_pc[1] = "done"
    /\ cc_pc[2] = "done"
    /\ cc_call[1].fn = "compositeImages"
    /\ cc_call[2].fn = "stripTransparency"
    /\ cc_call[1].scene # cc_call[2].scene
    /\ cc_canvas[2] < cc_canvas[1]
    /\ cc_out[1] # cc_out[2]


----------------------------------------------------------------------------
\* C21: every call that awaits loadImage in the end returns or rejects: no image
\* load stays pending for ever
BoundedLoading ==
    \A j \in Jobs : (cc_pc[j] = "loading") ~> (cc_pc[j] \in {"done", "rejected"})


----------------------------------------------------------------------------
\* C22: resizeBase64Image returns the input URL when the image is within maxDim
\* in both dimensions; otherwise the canvas it exports is at least 1 and at most
\* maxDim in each dimension
ResizeFits ==
    rz_pc = "done" =>
        IF rz_w <= rz_maxDim /\ rz_h <= rz_maxDim
        THEN rz_out.kind = "same"
        ELSE /\ rz_out.kind = "canvas"
             /\ 1 <= rz_out.nw /\ rz_out.nw <= rz_maxDim
             /\ 1 <= rz_out.nh /\ rz_out.nh <= rz_maxDim


----------------------------------------------------------------------------
----------------------------------------------------------------------------
\* C24 (as claimed): once placed, the draw rectangle lies inside the target rect,
\* the sums evaluated as the program evaluates them (binary64): x <= drawX,
\* drawX + drawW <= x + width, y <= drawY, drawY + drawH <= y + height, and
\* neither drawn dimension is larger than the box
DrawRectContained ==
    Placed =>
        /\ FLe(FInt(productPosition.x), draw.drawX)
        /\ FLe(FAdd(draw.drawX, draw.drawW),
               FAdd(FInt(productPosition.x), FInt(productPosition.width)))
        /\ FLe(FInt(productPosition.y), draw.drawY)
        /\ FLe(FAdd(draw.drawY, draw.drawH),
               FAdd(FInt(productPosition.y), FInt(productPosition.height)))
        /\ FLe(draw.drawW, FInt(productPosition.width))
        /\ FLe(draw.drawH, FInt(productPosition.height))

\* The number a exceeds the number b by no more than 2^-52 * n, taken exactly
ExceedsWithin(a, b, n) == XCmp(XShift(XSub(a, b), TolBits), XInt(n)) <= 0

\* C24: once placed, the draw rectangle lies inside the target rect up to
\* binary64 rounding: with the sums taken exactly, x - drawX and
\* drawX + drawW - (x + width) are at most 2^-52 * (x + width), y - drawY and
\* drawY + drawH - (y + height) are at most 2^-52 * (y + height); the fitted
\* dimension equals the box dimension exactly, and the other is positive and
\* exceeds the box dimension by at most 2^-52 of it
DrawRectContainedUpToRounding ==
    Placed =>
        LET p == productPosition
        IN  /\ ExceedsWithin(XInt(p.x), draw.drawX, p.x + p.width)
            /\ ExceedsWithin(XAdd(draw.drawX, draw.drawW), XInt(p.x + p.width),
                             p.x + p.width)
            /\ ExceedsWithin(XInt(p.y), draw.drawY, p.y + p.height)
            /\ ExceedsWithin(XAdd(draw.drawY, draw.drawH), XInt(p.y + p.height),
                             p.y + p.height)
            /\ \/ draw.drawW = FInt(p.width)
               \/ draw.drawH = FInt(p.height)
            /\ FGt(draw.drawW, FZero) /\ ExceedsWithin(draw.drawW, XInt(p.width), p.width)
            /\ FGt(draw.drawH, FZero) /\ ExceedsWithin(draw.drawH, XInt(p.height), p.height)

\* C24 witness: the product of exactly the aspect of its box is placed, its drawn
\* width is above the box width and its left edge left of the box
DrawRectContainedWitness ==
    /\ Placed
    /\ naturalWidth * productPosition.height = productPosition.width * naturalHeight
    /\ FGt(draw.drawW, FInt(productPosition.width))
    /\ FLt(draw.drawX, FInt(productPosition.x))
    /\ draw.drawH = FInt(productPosition.height)


----------------------------------------------------------------------------
\* C26: with several invocations of generateCreative in flight, started at any
\* times (also within one millisecond of Date.now()) and finishing in any order,
\* the step in which an invocation completes or fails changes only the record
\* that invocation created: every other record keeps its status and its
\* outputImageUrl
IsolatedGenerations ==
    [][\A c \in Calls :
          (gc_pc[c] # "done" /\ gc_pc'[c] = "done") =>
              \A k \in DOMAIN generatedCreatives :
                  k # gc_rec[c] =>
                      /\ generatedCreatives'[k].status = generatedCreatives[k].status
                      /\ generatedCreatives'[k].outputImageUrl
                            = generatedCreatives[k].outputImageUrl]_vars


----------------------------------------------------------------------------
\* One step of the hook keeps to the lifecycle of the records
LifecycleStep ==
    /\ \A c \in Calls :
          (gc_pc[c] = "idle" /\ gc_pc'[c] # "idle") =>
              /\ Len(generatedCreatives') = Len(generatedCreatives) + 1
              /\ gc_rec'[c] = Len(generatedCreatives')
              /\ generatedCreatives'[gc_rec'[c]].status = "generating"
    /\ (\A c \in Calls : gc_pc[c] = "idle" <=> gc_pc'[c] = "idle") =>
          Len(generatedCreatives') = Len(generatedCreatives)
    /\ \A k \in DOMAIN generatedCreatives :
          /\ k \in DOMAIN generatedCreatives'
          /\ generatedCreatives'[k].id = generatedCreatives[k].id
          /\ (generatedCreatives[k].status \in {"completed", "error"}) =>
                generatedCreatives'[k].status = generatedCreatives[k].status
          /\ (generatedCreatives[k].status = "generating") =>
                generatedCreatives'[k].status \in {"generating", "completed", "error"}

\* C25: the step that starts an invocation appends exactly one record, with
\* status 'generating', and no other step changes the length of
\* generatedCreatives or the records' order; a record that is 'completed' or
\* 'error' keeps its status for ever; and, every awaited call settling, the
\* record of every started invocation leaves 'generating' for 'completed' or
\* 'error'
StatusLifecycle ==
    /\ [][LifecycleStep]_vars
    /\ \A c \in Calls :
          (gc_pc[c] \notin {"idle", "done"}) ~>
              (gc_pc[c] = "done" /\ Creative(c).status \in {"completed", "error"})


----------------------------------------------------------------------------
\* C27: in every reachable state of the hook, every record of generatedCreatives
\* with status 'completed' has a defined outputImageUrl, whatever body the
\* generate-creative response carries and whether stripTransparency resolves or
\* rejects
CompletedHasImage ==
    \A k \in DOMAIN generatedCreatives :
        generatedCreatives[k].status = "completed" =>
            generatedCreatives[k].outputImageUrl # Undefined


----------------------------------------------------------------------------
\* The alpha bytes of a buffer are those at offsets 4p + 3 (positions 4p + 4)
AlphaPositions(d) == { k \in DOMAIN d : k % 4 = 0 }

\* C28 (as claimed): while a classifier runs and when it is done, the alpha of
\* every pixel of the buffer is less than or equal to the alpha the pixel had in
\* the image the classifier was given, whatever that alpha was
NeverMoreOpaque ==
    cl_pc \in {"loop", "done"} =>
        \A k \in AlphaPositions(data) : data[k] <= img.data[k]

\* The pixel whose alpha is at position k is in the soft band of the classifier:
\* it passes the soft test and not the hard one
InSoftBand(op, d, k) ==
    LET r == d[k - 3]
        g == d[k - 2]
        b == d[k - 1]
    IN  IF op = "chroma"
        THEN /\ ~(g > 180 /\ r < 120 /\ b < 120)
             /\ g > 150
             /\ FGt(FInt(g), FMul(FInt(r), FLit(14, 10)))
             /\ FGt(FInt(g), FMul(FInt(b), FLit(14, 10)))
        ELSE /\ ~(r > 240 /\ g > 240 /\ b > 240)
             /\ r > 220 /\ g > 220 /\ b > 220

\* C28: a classifier makes a pixel more opaque only in its soft band.  Outside
\* the soft band the alpha of every pixel, whatever it was, is less than or equal
\* to the alpha before; in the soft band the alpha is overwritten, whatever it
\* was, with a value of at most 182 (chromaKeyGreen) or 34
\* (removeWhiteBackground)
MoreOpaqueOnlyInSoftBand ==
    cl_pc \in {"loop", "done"} =>
        \A k \in AlphaPositions(data) :
            IF InSoftBand(cl_op, img.data, k)
            THEN k <= cl_i => data[k] <= (IF cl_op = "chroma" THEN 182 ELSE 34)
            ELSE data[k] <= img.data[k]

\* C28 witness: a function is done with a one-pixel image of alpha 100 whose
\* pixel is in its soft band, and the pixel is more opaque than before, at the
\* largest alpha the band gives
MoreOpaqueOnlyInSoftBandWitness ==
    /\ cl_pc = "done"
    /\ Len(data) = 4
    /\ img.data[4] = 100
    /\ \/ cl_op = "chroma" /\ img.data = <<165, 231, 0, 100>> /\ data[4] = 182
       \/ cl_op = "white" /\ img.data = <<221, 221, 221, 100>> /\ data[4] = 34


----------------------------------------------------------------------------
----------------------------------------------------------------------------
\* The draw rectangle of compositeProductOnBackdrop has been computed
BackdropPlaced == bd_pc \in {"ambient", "contact", "product", "export", "done"}

\* drawW / drawH equals the product's aspect ratio within floating-point
\* tolerance (2^-52, the products taken exactly)
BackdropAspect ==
    XCmp(XShift(XAbs(XSub(XMulInt(bd_draw.drawW, bd_nh), XMulInt(bd_draw.drawH, bd_nw))),
                TolBits),
         XMulInt(bd_draw.drawH, bd_nw)) <= 0

\* The rectangle is centred horizontally, drawX = (W - drawW) / 2, and lies
\* wholly within the canvas, as the program evaluates the sums
BackdropCentredInside ==
    /\ bd_draw.drawX = FDiv(FSub(FInt(bd_canvas.width), bd_draw.drawW), Two)
    /\ FLe(FZero, bd_draw.drawX)
    /\ FLe(FAdd(bd_draw.drawX, bd_draw.drawW), FInt(bd_canvas.width))
    /\ FLe(FZero, bd_draw.drawY)
    /\ FLe(FAdd(bd_draw.drawY, bd_draw.drawH), FInt(bd_canvas.height))

\* C30 (as claimed): once compositeProductOnBackdrop has placed the product,
\* drawW <= 0.6 * W and drawH <= 0.65 * H with the products as the program
\* evaluates them, the aspect ratio is the product's, and the rectangle is
\* centred and within the canvas
BackdropContained ==
    BackdropPlaced =>
        /\ FLe(bd_draw.drawW, FMul(FInt(bd_canvas.width), BdMaxW))
        /\ FLe(bd_draw.drawH, FMul(FInt(bd_canvas.height), BdMaxH))
        /\ BackdropAspect
        /\ BackdropCentredInside

\* The number a is at most (1 + 2^-50) * num / den, taken exactly
AtMostUpToRounding(a, num, den) ==
    XCmp(XShift(XSub(XMulInt(a, den), XInt(num)), TolBits - 2), XInt(num)) <= 0

\* C30: once compositeProductOnBackdrop has placed the product, drawW is at most
\* 0.6 * W and drawH at most 0.65 * H up to binary64 rounding (a relative excess
\* of at most 2^-50), the fitted dimension is the limit maxW or maxH as the
\* program computes it, drawW / drawH is the product's aspect ratio within
\* floating-point tolerance, and the rectangle is centred horizontally and lies
\* wholly within the canvas
BackdropContainedUpToRounding ==
    BackdropPlaced =>
        /\ AtMostUpToRounding(bd_draw.drawW, 6 * bd_canvas.width, 10)
        /\ AtMostUpToRounding(bd_draw.drawH, 65 * bd_canvas.height, 100)
        /\ \/ bd_draw.drawW = FMul(FInt(bd_canvas.width), BdMaxW)
           \/ bd_draw.drawH = FMul(FInt(bd_canvas.height), BdMaxH)
        /\ BackdropAspect
        /\ BackdropCentredInside

\* C30 witness: the product of the aspect of the limits is placed, fitted to the
\* height, and its drawn width is above the limit maxW by a rounding
BackdropContainedWitness ==
    /\ BackdropPlaced
    /\ bd_draw.drawH = FMul(FInt(bd_canvas.height), BdMaxH)
    /\ FGt(bd_draw.drawW, FMul(FInt(bd_canvas.width), BdMaxW))
    /\ FLt(bd_draw.drawX, FDiv(FSub(FInt(bd_canvas.width),
                                    FMul(FInt(bd_canvas.width), BdMaxW)), Two))

====
